---- MODULE Spec2Model ----
(***************************************************************************)
(* Amrita humanoid robot (GitaGPT): the voice question-answering servers   *)
(* (server/server.py, server/server_faiss_semantic.py,                     *)
(* server/server_semantic.py) and the text functions of the RAG core.      *)
(*                                                                         *)
(* A Python string is a sequence of one-character strings; one element is  *)
(* one code point (a non-ASCII code point is written "U+XXXX").            *)
(***************************************************************************)
EXTENDS Integers, Sequences, FiniteSets, TLC

(***************************************************************************)
(* Characters                                                              *)
(***************************************************************************)
Digits == <<"0","1","2","3","4","5","6","7","8","9">>

LowerLetters == <<"a","b","c","d","e","f","g","h","i","j","k","l","m","n","o","p","q","r","s","t","u","v",
     "w","x","y","z">>

UpperLetters == <<"A","B","C","D","E","F","G","H","I","J","K","L","M","N","O","P","Q","R","S","T","U","V",
     "W","X","Y","Z">>

Range(f) == {f[k] : k \in DOMAIN f}

DigitChars == Range(Digits)

SpaceChars == {" ", "\t", "\n", "\r", "\f"}

WordChars == Range(Digits) \cup Range(LowerLetters) \cup Range(UpperLetters) \cup {"_"}

LowerOf == [c \in Range(UpperLetters) |-> LowerLetters[CHOOSE k \in 1..26 : UpperLetters[k] = c]]

\* \d of the re module
IsDigit(c) == c \in DigitChars

\* \s of the re module, and the characters str.strip() removes
IsSpace(c) == c \in SpaceChars

\* \w of the re module (the two sides of \b)
IsWord(c) == c \in WordChars

\* str.lower() on one character, which is also how re.IGNORECASE compares
Lower(c) == IF c \in DOMAIN LowerOf THEN LowerOf[c] ELSE c

LowerStr(s) == [k \in 1..Len(s) |-> Lower(s[k])]

\* s[i:].startswith(lit), positions counted from 1
HasAt(s, i, lit) ==
    /\ i >= 1
    /\ i + Len(lit) - 1 <= Len(s)
    /\ \A k \in 1..Len(lit) : s[i + k - 1] = lit[k]

\* the same comparison under re.IGNORECASE
HasAtI(s, i, lit) ==
    /\ i >= 1
    /\ i + Len(lit) - 1 <= Len(s)
    /\ \A k \in 1..Len(lit) : Lower(s[i + k - 1]) = Lower(lit[k])

\* Python's `sub in s`
Contains(s, sub) == \E i \in 1..(Len(s) + 1) : HasAt(s, i, sub)

RECURSIVE SkipSpaces(_, _)
\* \s* from position i: the position after the run
SkipSpaces(s, i) ==
    IF i <= Len(s) /\ IsSpace(s[i]) THEN SkipSpaces(s, i + 1) ELSE i

RECURSIVE SkipDigits(_, _)
\* \d* from position i: the position after the run
SkipDigits(s, i) ==
    IF i <= Len(s) /\ IsDigit(s[i]) THEN SkipDigits(s, i + 1) ELSE i

RECURSIVE SkipChars(_, _, _)
\* [set]* from position i: the position after the run
SkipChars(s, i, set) ==
    IF i <= Len(s) /\ s[i] \in set THEN SkipChars(s, i + 1, set) ELSE i

RECURSIVE LStrip(_)
LStrip(s) == IF s # <<>> /\ IsSpace(Head(s)) THEN LStrip(Tail(s)) ELSE s

RECURSIVE RStrip(_)
RStrip(s) ==
    IF s # <<>> /\ IsSpace(s[Len(s)]) THEN RStrip(SubSeq(s, 1, Len(s) - 1)) ELSE s

\* str.strip()
Strip(s) == RStrip(LStrip(s))

Max(S) == CHOOSE x \in S : \A y \in S : y <= x

(***************************************************************************)
(* clean_response_text: the regular expressions.  Each matcher gives, for  *)
(* a match attempt anchored at position i, the position after the match,   *)
(* or 0 when the expression does not match there.                          *)
(***************************************************************************)
\* r"\[id=\s*\d+\s*\]"
MatchBracketId(s, i) ==
    IF ~HasAt(s, i, <<"[","i","d","=">>) THEN 0
    ELSE LET a == SkipSpaces(s, i + 4)
             b == SkipDigits(s, a)
             c == SkipSpaces(s, b)
         IN  IF b > a /\ HasAt(s, c, <<"]">>) THEN c + 1 ELSE 0

\* r"[-+]?\d*\.?\d+" followed by something that is neither a digit nor a dot
MatchNumber(s, i) ==
    LET a == IF i <= Len(s) /\ s[i] \in {"-", "+"} THEN i + 1 ELSE i
        b == SkipDigits(s, a)
    IN  IF HasAt(s, b, <<".">>)
        THEN LET c == SkipDigits(s, b + 1)
             IN  IF c > b + 1 THEN c ELSE 0
        ELSE IF b > a THEN b ELSE 0

\* r"\(id=\s*\d+(?:\s*,\s*score\s*=\s*[-+]?\d*\.?\d+)?\s*\)" with re.IGNORECASE
MatchParenId(s, i) ==
    IF ~HasAtI(s, i, <<"(","i","d","=">>) THEN 0
    ELSE LET a == SkipSpaces(s, i + 4)
             b == SkipDigits(s, a)
             c == SkipSpaces(s, b)
         IN  IF b = a THEN 0
             ELSE IF HasAt(s, c, <<")">>) THEN c + 1
             ELSE IF ~HasAt(s, c, <<",">>) THEN 0
             ELSE LET d == SkipSpaces(s, c + 1)
                      e == SkipSpaces(s, d + 5)
                      f == SkipSpaces(s, e + 1)
                      g == MatchNumber(s, f)
                      h == SkipSpaces(s, g)
                  IN  IF /\ HasAtI(s, d, <<"s","c","o","r","e">>)
                         /\ HasAt(s, e, <<"=">>)
                         /\ g > 0
                         /\ HasAt(s, h, <<")">>)
                      THEN h + 1 ELSE 0

\* r"\bid\s*=\s*\d+\b"
MatchBareId(s, i) ==
    IF ~HasAt(s, i, <<"i","d">>) \/ (i > 1 /\ IsWord(s[i - 1])) THEN 0
    ELSE LET a == SkipSpaces(s, i + 2)
             b == SkipSpaces(s, a + 1)
             c == SkipDigits(s, b)
         IN  IF /\ HasAt(s, a, <<"=">>)
                /\ c > b
                /\ (c > Len(s) \/ ~IsWord(s[c]))
             THEN c ELSE 0

\* r"\[\s*\]"
MatchEmptyBrackets(s, i) ==
    IF ~HasAt(s, i, <<"[">>) THEN 0
    ELSE LET a == SkipSpaces(s, i + 1)
         IN  IF HasAt(s, a, <<"]">>) THEN a + 1 ELSE 0

\* r"\(\s*\)"
MatchEmptyParens(s, i) ==
    IF ~HasAt(s, i, <<"(">>) THEN 0
    ELSE LET a == SkipSpaces(s, i + 1)
         IN  IF HasAt(s, a, <<")">>) THEN a + 1 ELSE 0

\* r"\n{3,}"
MatchNewlines(s, i) ==
    LET a == SkipChars(s, i, {"\n"}) IN IF a >= i + 3 THEN a ELSE 0

\* r"[ \t]{2,}"
MatchBlanks(s, i) ==
    LET a == SkipChars(s, i, {" ", "\t"}) IN IF a >= i + 2 THEN a ELSE 0

\* r"CONTEXT:.*USER QUERY:.*Answer:" with re.DOTALL | re.IGNORECASE: both
\* .* are greedy, so the match runs to the last "Answer:" that has a
\* "USER QUERY:" between it and the "CONTEXT:" at i
MatchEcho(s, i) ==
    IF ~HasAtI(s, i, <<"C","O","N","T","E","X","T",":">>) THEN 0
    ELSE LET ks == {k \in (i + 8)..Len(s) :
                       /\ HasAtI(s, k, <<"A","n","s","w","e","r",":">>)
                       /\ \E j \in (i + 8)..(k - 11) : HasAtI(s, j, <<"U","S","E","R"," ","Q","U","E","R","Y",":">>)}
         IN  IF ks = {} THEN 0 ELSE Max(ks) + 7

MatchEnd(p, s, i) ==
    CASE p = "bracket_id"     -> MatchBracketId(s, i)
      [] p = "paren_id"       -> MatchParenId(s, i)
      [] p = "bare_id"        -> MatchBareId(s, i)
      [] p = "empty_brackets" -> MatchEmptyBrackets(s, i)
      [] p = "empty_parens"   -> MatchEmptyParens(s, i)
      [] p = "newlines"       -> MatchNewlines(s, i)
      [] p = "blanks"         -> MatchBlanks(s, i)
      [] p = "echo"           -> MatchEcho(s, i)

RECURSIVE ReSubFrom(_, _, _, _)
\* re.sub(p, repl, s) from position i on: the text up to the leftmost match is
\* copied, the match is replaced and the scan goes on after it
ReSubFrom(p, repl, s, i) ==
    LET starts == {k \in i..Len(s) : MatchEnd(p, s, k) > 0}
    IN  IF starts = {} THEN SubSeq(s, i, Len(s))
        ELSE LET m == CHOOSE k \in starts : \A j \in starts : k <= j
             IN  SubSeq(s, i, m - 1) \o repl \o ReSubFrom(p, repl, s, MatchEnd(p, s, m))

ReSub(p, repl, s) == ReSubFrom(p, repl, s, 1)

\* str.replace("*", " ")
ReplaceAsterisks(s) == [k \in 1..Len(s) |-> IF s[k] = "*" THEN " " ELSE s[k]]

clean_response_text(text) ==
    IF text = <<>> THEN text
    ELSE LET c1 == ReSub("bracket_id", <<" ">>, text)
             c2 == ReSub("paren_id", <<" ">>, c1)
             c3 == ReSub("bare_id", <<" ">>, c2)
             c4 == ReSub("empty_brackets", <<" ">>, c3)
             c5 == ReSub("empty_parens", <<" ">>, c4)
             c6 == ReplaceAsterisks(c5)
             c7 == ReSub("newlines", <<"\n", "\n">>, c6)
             c8 == ReSub("blanks", <<" ">>, c7)
             c9 == Strip(c8)
         IN  Strip(ReSub("echo", <<>>, c9))

(***************************************************************************)
(* make_prompt                                                             *)
(***************************************************************************)
RECURSIVE NatToStr(_)
NatToStr(n) == IF n < 10 THEN <<Digits[n + 1]>> ELSE NatToStr(n \div 10) \o <<Digits[(n % 10) + 1]>>

\* str(idx) of an integer
IntToStr(n) == IF n < 0 THEN <<"-">> \o NatToStr(-n) ELSE NatToStr(n)

\* f"{score:.4f}"; a score is held as the integer number of ten-thousandths
\* the format rounds it to
FormatScore(score) ==
    LET a == IF score < 0 THEN -score ELSE score
        f == a % 10000
    IN  (IF score < 0 THEN <<"-">> ELSE <<>>) \o NatToStr(a \div 10000) \o <<".">>
        \o <<Digits[(f \div 1000) + 1], Digits[((f \div 100) % 10) + 1],
             Digits[((f \div 10) % 10) + 1], Digits[(f % 10) + 1]>>

\* f"(id={idx}, score={score:.4f})\n{txt.strip()}\n---\n"
Entry(r) ==
    <<"(","i","d","=">> \o IntToStr(r.idx) \o <<","," ","s","c","o","r","e","=">> \o FormatScore(r.score) \o <<")","\n">>
    \o Strip(r.txt) \o <<"\n","-","-","-","\n">>

RECURSIVE ContextPartsFrom_mut(_, _, _, _)
\* the loop with the budget compared before the entry's length is added: the
\* entry that crosses the budget is kept
ContextPartsFrom_mut(retrieved, k, total_len, max_context_chars) ==
    IF k > Len(retrieved) THEN <<>>
    ELSE LET entry == Entry(retrieved[k])
         IN  IF total_len > max_context_chars THEN <<>>
             ELSE <<entry>> \o ContextPartsFrom_mut(retrieved, k + 1, total_len + Len(entry),
                                                    max_context_chars)

RECURSIVE ContextPartsFrom_skip(_, _, _, _)
\* the loop passing over an entry that does not fit, without counting it, and
\* going on to the next one
ContextPartsFrom_skip(retrieved, k, total_len, max_context_chars) ==
    IF k > Len(retrieved) THEN <<>>
    ELSE LET entry == Entry(retrieved[k])
             total == total_len + Len(entry)
         IN  IF total > max_context_chars
             THEN ContextPartsFrom_skip(retrieved, k + 1, total_len, max_context_chars)
             ELSE <<entry>> \o ContextPartsFrom_skip(retrieved, k + 1, total, max_context_chars)

RECURSIVE ContextPartsFrom(_, _, _, _)
\* the loop of make_prompt from entry k on, total_len being the running total
ContextPartsFrom(retrieved, k, total_len, max_context_chars) ==
    IF k > Len(retrieved) THEN <<>>
    ELSE LET entry == Entry(retrieved[k])
             total == total_len + Len(entry)
         IN  IF total > max_context_chars THEN <<>>
             ELSE <<entry>> \o ContextPartsFrom(retrieved, k + 1, total, max_context_chars)

\* context_parts when the loop ends
ContextParts(retrieved, max_context_chars) ==
    ContextPartsFrom(retrieved, 1, 0, max_context_chars)

RECURSIVE Join(_, _)
\* sep.join(parts)
Join(sep, parts) ==
    IF parts = <<>> THEN <<>>
    ELSE IF Len(parts) = 1 THEN parts[1]
    ELSE parts[1] \o sep \o Join(sep, Tail(parts))

INSTRUCTION ==
    <<"Y","o","u"," ","a","r","e"," ","a","n"," ","a","s","s","i","s","t","a","n","t"," ","w",
     "h","o"," ","a","n","s","w","e","r","s"," ","*","w","i","t","h"," ","r","e","f","e",
     "r","e","n","c","e"," ","t","o"," ","t","h","e"," ","B","h","a","g","a","v","a","d",
     " ","G","i","t","a","*",".","\n","\n","G","U","I","D","E","L","I","N","E","S",":",
     "\n","1","."," ","U","s","e"," ","o","n","l","y"," ","t","h","e"," ","v","e","r","s",
     "e","s"," ","p","r","o","v","i","d","e","d"," ","i","n"," ","t","h","e"," ","C","O",
     "N","T","E","X","T",".","\n"," "," "," ","-"," ","T","r","e","a","t"," ","C","O","N",
     "T","E","X","T"," ","a","s"," ","t","h","e"," ","s","o","l","e"," ","k","n","o","w",
     "l","e","d","g","e"," ","s","o","u","r","c","e"," ","f","o","r"," ","G","i","t","a",
     " ","r","e","f","e","r","e","n","c","e","s",".","\n"," "," "," ","-"," ","D","o"," ",
     "n","o","t"," ","i","n","v","e","n","t"," ","o","r"," ","r","e","c","a","l","l"," ",
     "v","e","r","s","e","s"," ","o","u","t","s","i","d","e"," ","t","h","e"," ","g","i",
     "v","e","n"," ","I","D","s",".","\n","\n","2","."," ","C","i","t","a","t","i","o",
     "n","s",":","\n"," "," "," ","-"," ","W","h","e","n"," ","b","a","s","i","n","g"," ",
     "a","n","y"," ","p","a","r","t"," ","o","f"," ","y","o","u","r"," ","a","n","s","w",
     "e","r"," ","o","n"," ","a"," ","v","e","r","s","e",","," ","i","n","c","l","u","d",
     "e"," ","a","n"," ","i","n","l","i","n","e"," ","c","i","t","a","t","i","o","n"," ",
     "i","n"," ","t","h","i","s"," ","e","x","a","c","t"," ","f","o","r","m","a","t",":",
     " ","(","i","d","=","X","Y","Z",")",".","\n"," "," "," ","-"," ","I","f"," ","s","u",
     "m","m","a","r","i","z","i","n","g"," ","m","u","l","t","i","p","l","e"," ","v","e",
     "r","s","e","s",","," ","c","i","t","e"," ","e","a","c","h"," ","r","e","l","e","v",
     "a","n","t"," ","i","d",","," ","i","t"," ","w","o","u","l","d"," ","b","e"," ","p",
     "r","e","f","e","r","a","b","l","e"," ","t","o"," ","g","i","v","e"," ","c","h","a",
     "p","t","e","r"," ","n","u","m","b","e","r"," ","a","n","d"," ","v","e","r","s","e",
     " ","n","u","m","b","e","r"," ","a","s"," ","w","e","l","l"," ","i","n"," ","t","h",
     "e"," ","b","e","g","i","n","n","i","n","g"," ","b","e","f","o","r","e"," ","r","e",
     "f","e","r","e","n","c","i","n","g"," ","t","h","a","t"," ","t","o"," ","t","h","e",
     " ","a","n","s","w","e","r"," ","t","o"," ","s","o","l","u","t","i","o","n",".","\n",
     "\n","3","."," ","Q","u","o","t","i","n","g",":","\n"," "," "," ","-"," ","K","e",
     "e","p"," ","d","i","r","e","c","t"," ","q","u","o","t","e","s"," ","s","h","o","r",
     "t"," ","(","a"," ","p","h","r","a","s","e"," ","o","r"," ","l","i","n","e",")",".",
     "\n"," "," "," ","-"," ","P","r","e","f","e","r"," ","p","a","r","a","p","h","r","a",
     "s","i","n","g"," ","+"," ","e","x","p","l","a","n","a","t","i","o","n"," ","o","v",
     "e","r"," ","l","o","n","g"," ","c","o","p","y","-","p","a","s","t","e","s",".","\n",
     "\n","4","."," ","S","t","y","l","e"," ","o","f"," ","A","n","s","w","e","r",":",
     "\n"," "," "," ","-"," ","P","r","o","v","i","d","e"," ","c","l","e","a","r",","," ",
     "d","e","c","e","n","t","l","y"," ","d","e","t","a","i","l","e","d"," ","e","x","p",
     "l","a","n","a","t","i","o","n","s"," ","i","n"," ","u","n","d","e","r"," ","1","2",
     "0"," ","w","o","r","d","s",".","\n"," "," "," ","-"," ","S","h","o","w"," ","h","o",
     "w"," ","t","h","e"," ","v","e","r","s","e"," ","c","o","n","n","e","c","t","s"," ",
     "t","o"," ","t","h","e"," ","u","s","e","r","U+2019","s"," ","q","u","e","s","t","i",
     "o","n"," ","(","v","e","r","y"," ","v","e","r","y"," ","i","m","p","o","r","t","a",
     "n","t",")",".","\n"," "," "," ","-"," ","E","n","c","o","u","r","a","g","e"," ","a",
     "n","d"," ","g","u","i","d","e"," ","t","h","e"," ","u","s","e","r"," ","i","n"," ",
     "u","n","d","e","r","s","t","a","n","d","i","n","g",","," ","w","i","t","h","o","u",
     "t"," ","b","e","i","n","g"," ","p","r","e","a","c","h","y","."," ","\n","\n","5",
     "."," ","B","o","u","n","d","a","r","i","e","s",":","\n"," "," "," ","-"," ","D","o",
     " ","n","o","t"," ","f","a","b","r","i","c","a","t","e"," ","c","h","a","p","t","e",
     "r","/","v","e","r","s","e"," ","n","u","m","b","e","r","s",".","\n"," "," "," ","-",
     " ","D","o"," ","n","o","t"," ","r","e","l","y"," ","o","n"," ","o","u","t","s","i",
     "d","e"," ","k","n","o","w","l","e","d","g","e"," ","U+2014"," ","o","n","l","y"," ",
     "u","s","e"," ","t","h","e"," ","g","i","v","e","n"," ","C","O","N","T","E","X","T",
     ".">>

make_prompt(query, retrieved, max_context_chars) ==
    LET context == Join(<<"\n">>, ContextParts(retrieved, max_context_chars))
    IN  INSTRUCTION \o <<"\n","\n","C","O","N","T","E","X","T",":","\n">> \o context \o <<"\n","U","S","E","R"," ","Q","U","E","R","Y",":","\n">> \o query
        \o <<"\n","\n","A","n","s","w","e","r",":">>

(***************************************************************************)
(* Bounds of the model and constants of the program                        *)
(***************************************************************************)
\* raw texts given to clean_response_text are made of at most this many fragments
MaxFragments == 3

\* make_prompt is given at most this many retrieved entries
MaxRetrieved == 3

\* make_prompt is given budgets 0..MaxContextChars
MaxContextChars == 64

\* number of passages of the corpus file
CorpusSize == 2

\* requests one server process answers
MaxRequests == 2

\* a request body has 0..MaxAudioBytes bytes
MaxAudioBytes == 2

\* retrieve is called with top_k in 1..MaxTopK
MaxTopK == 3

\* ports init_arduino tries in one call
MaxPorts == 2

\* calls of play_audio_with_jaw in one run of the client
MaxPlaybacks == 2

\* starts of the server process in a row
MaxStartups == 3

\* range(3) of the closing loop of move_jaw_simple
CloseAttempts == 3

\* TOP_K of server.py
TOP_K == 5

\* the default max_context_chars of make_prompt, which process_audio uses
DEFAULT_MAX_CONTEXT_CHARS == 2000

\* top_k of the find_relevant_verses call of server_faiss_semantic.py
VERSE_TOP_K == 3

(***************************************************************************)
(* State                                                                   *)
(***************************************************************************)
VARIABLES
    text,               \* clean_response_text: the text it is applied to
    applied,            \* clean_response_text: how many times it was applied
    mp_args,            \* make_prompt: query, retrieved, max_context_chars
    mp_out,             \* make_prompt: context_parts, context and prompt
    rt_args,            \* retrieve: query, texts_list, top_k and what encoder and index do
    rt_out,             \* retrieve: results, and the calls it made
    variant,            \* the server script the process runs
    phase,              \* "startup", "serving" or "exited"
    HAS_OLLAMA,         \* _HAS_OLLAMA
    HAS_PIPER,          \* _HAS_PIPER / HAS_PIPER
    whisper_model,      \* "None" or "loaded"
    df,                 \* df / gita_data: "None" or "loaded"
    embedder,           \* embedder / sentence_model: "None" or "loaded"
    faiss_index,        \* [ntotal |-> n], NoIndex for None
    texts,              \* the passage texts (empty before they are loaded)
    piper_voice,        \* _piper_voice / piper_voice: "None" or "loaded"
    index_file,         \* the index cache file: -1 absent, else its vector count
    pc,                 \* where the request in flight is
    nreq,               \* requests received so far
    audio_bytes,        \* len(request.data)
    transcribed_text,   \* transcribed_text / transcription
    retrieved,          \* retrieved / verse_results
    response_text_raw,
    response_text,
    tts_text,           \* the text handed to synthesis
    calls,              \* the stages the request has invoked, in order
    failed,             \* the stages that raised during the request
    resp,               \* the response (status 0: none yet)
    arduino,            \* self.arduino: "None", "open" or "closed"
    is_connected,
    jaw_moving,
    jaw_thread,         \* self.jaw_thread: 0 for None, else the thread
    threads,            \* the jaw threads: where each is in move_jaw_simple, the
                        \* segment it sends for (0: the closing command), its
                        \* closing attempt (0: still animating)
    current_jaw_state,  \* self._current_jaw_state, "unset" when absent
    link,               \* the byte strings written to the serial port
    delivered,          \* the latest write that went through, and whether a
                        \* write has failed so far
    last_sent,          \* the latest call of send_jaw_command
    playbacks,          \* calls of play_audio_with_jaw so far
    fg,                 \* the foreground thread: where it is in run
    su                  \* successive starts of server.py: the corpus size, the
                        \* starts and builds so far, the cache file before the
                        \* latest call of load_or_build_index and what it did

cleanVars == <<text, applied>>
promptVars == <<mp_args, mp_out>>
retrieveVars == <<rt_args, rt_out>>
processVars == <<variant, phase, HAS_OLLAMA, HAS_PIPER, whisper_model, df, embedder,
                 faiss_index, texts, piper_voice, index_file>>
modelHandles == <<whisper_model, df, embedder, faiss_index, texts>>
requestVars == <<pc, nreq, audio_bytes, transcribed_text, retrieved, response_text_raw,
                 response_text, tts_text, calls, failed, resp>>
clientVars == <<arduino, is_connected, jaw_moving, jaw_thread, threads, current_jaw_state,
                link, delivered, last_sent, playbacks, fg>>
nonClientVars == <<cleanVars, promptVars, retrieveVars, processVars, requestVars, su>>
vars == <<cleanVars, promptVars, retrieveVars, clientVars, processVars, requestVars, su>>

NoIndex == [ntotal |-> -1]

NoResp ==
    [status |-> 0, error |-> "", transcription |-> <<>>, response |-> <<>>,
     response_raw |-> <<>>, formatted_response |-> <<>>, audio |-> "null",
     end_conversation |-> "absent", intent |-> "absent"]

\* jsonify({"error": ...}), status
\* the handler without its outer except clause: an exception that no inner
\* handler answers leaves process_audio without a response of its own
ErrorResp_escapes(status, error) ==
    IF error = "unhandled" THEN NoResp
    ELSE [NoResp EXCEPT !.status = status, !.error = error]

ErrorResp(status, error) == [NoResp EXCEPT !.status = status, !.error = error]

\* the values the variables of one group have while another group is exercised
CleanIdle == text = <<>> /\ applied = 0

PromptIdle ==
    /\ mp_args = [query |-> <<>>, retrieved |-> <<>>, max_context_chars |-> 0]
    /\ mp_out = [done |-> FALSE, context_parts |-> <<>>, context |-> <<>>, prompt |-> <<>>]

RetrieveIdle ==
    /\ rt_args = [query |-> <<>>, texts_list |-> <<>>, top_k |-> 0,
                  env |-> [encode_ok |-> TRUE, search_ok |-> TRUE, hits |-> <<>>]]
    /\ rt_out = [done |-> FALSE, raised |-> FALSE, results |-> <<>>, calls |-> <<>>,
                 failed |-> {}]

NoSent == [outcome |-> "none", writes |-> 0, reconnects |-> 0, result |-> "none"]

NoThread == [pc |-> "unstarted", target |-> 0, attempt |-> 0]

ClientIdle ==
    /\ arduino = "None" /\ is_connected = FALSE /\ jaw_moving = FALSE /\ jaw_thread = 0
    /\ threads = [t \in 1..MaxPlaybacks |-> NoThread]
    /\ current_jaw_state = "unset"
    /\ link = {}
    /\ delivered = [last |-> <<>>, failed |-> FALSE]
    /\ last_sent = NoSent
    /\ playbacks = 0
    /\ fg = [pc |-> "construct", stopped |-> "none"]

NoLoad == [raised |-> FALSE, ntotal |-> -1, encoded |-> 0, built |-> FALSE, loaded |-> FALSE]

StartupIdle ==
    su = [n_texts |-> 0, index_path |-> FALSE, startups |-> 0, builds |-> 0, before |-> -1,
          last |-> NoLoad]

RequestIdle ==
    /\ pc = "idle" /\ nreq = 0 /\ audio_bytes = 0
    /\ transcribed_text = <<>> /\ retrieved = <<>>
    /\ response_text_raw = <<>> /\ response_text = <<>> /\ tts_text = <<>>
    /\ calls = <<>> /\ failed = {} /\ resp = NoResp

\* the module-level code of a server script: every handle is None
Imported ==
    /\ phase = "startup"
    /\ whisper_model = "None" /\ df = "None" /\ embedder = "None"
    /\ faiss_index = NoIndex /\ texts = <<>> /\ piper_voice = "None"

ProcessIdle ==
    /\ Imported
    /\ variant = "server" /\ HAS_OLLAMA = FALSE /\ HAS_PIPER = FALSE /\ index_file = -1

(***************************************************************************)
(* clean_response_text applied, and applied again, to a raw text           *)
(***************************************************************************)
Fragments ==
    <<<<"[","i","d","=","7","]">>, <<"(","i","d","=","1","2",","," ","s","c","o","r","e","=","0",".","8","4","2","1",")">>, <<"i","d","=","5">>, <<"[">>, <<"]">>, <<"(">>, <<")">>,
      <<"*">>, <<" ">>, <<"\n">>, <<"D","o"," ","i","t",".">>, <<"C","O","N","T","E","X","T",":">>, <<"U","S","E","R"," ","Q","U","E","R","Y",":">>, <<"A","n","s","w","e","r",":">>,
      <<"[","i","d","=">>, <<"7","]">>, <<"C","O","N","T","E","X","T",":","\n","(","i","d","=","3",","," ","s","c","o","r","e","=",
     "0",".","5",")","\n","U","S","E","R"," ","Q","U","E","R","Y",":","\n","W","h","y",
     "?","\n","\n","A","n","s","w","e","r",":">>>>

RECURSIVE Flatten(_)
Flatten(ss) == IF ss = <<>> THEN <<>> ELSE Head(ss) \o Flatten(Tail(ss))

RawTexts ==
    {Flatten([k \in DOMAIN f |-> Fragments[f[k]]]) :
        f \in UNION {[1..m -> DOMAIN Fragments] : m \in 0..MaxFragments}}

InitClean ==
    /\ text \in RawTexts
    /\ applied = 0
    /\ PromptIdle /\ RetrieveIdle /\ ProcessIdle /\ RequestIdle /\ ClientIdle
    /\ StartupIdle

\* cleaned = clean_response_text(text), then clean_response_text(cleaned)
CleanStep ==
    /\ applied < 2
    /\ text' = clean_response_text(text)
    /\ applied' = applied + 1
    /\ UNCHANGED <<promptVars, retrieveVars, clientVars, su, processVars, requestVars>>

NextClean == CleanStep

SpecClean == InitClean /\ [][NextClean]_vars

\* C1: clean_response_text is idempotent: applying it to its own output
\* changes nothing, clean(clean(x)) = clean(x)
C1_CleanIdempotent == [][applied = 1 => text' = text]_vars

\* C20 as claimed: the output of clean_response_text contains no citation
\* token of the three forms [id=<digits>], (id=<digits>) or (id=<digits>,
\* score=<number>), and bare id=<digits>. Each of the three forms holds the
\* letters id= and digits between two non-word characters or text ends, so
\* the output holds no such run
C20_NoCitationTokenLeft ==
    applied >= 1 =>
        \A i \in DOMAIN text :
            LET digits_end == SkipDigits(text, i + 3)
            IN  ~ /\ HasAt(text, i, <<"i", "d", "=">>)
                  /\ i = 1 \/ ~IsWord(text[i - 1])
                  /\ digits_end > i + 3
                  /\ digits_end > Len(text) \/ ~IsWord(text[digits_end])

(***************************************************************************)
(* make_prompt called on a retrieved list and a budget                     *)
(***************************************************************************)
RetrievedEntries ==
    {[idx |-> 0, score |-> 8421, txt |-> <<"A">>],
     [idx |-> 12, score |-> 10000, txt |-> <<" ","B"," ","\n">>],
     [idx |-> 7, score |-> -500, txt |-> <<"D","o"," ","i","t">>],
     [idx |-> 1, score |-> 0, txt |-> <<>>]}

RetrievedLists == UNION {[1..m -> RetrievedEntries] : m \in 0..MaxRetrieved}

Queries == {<<>>, <<"W","h","a","t"," ","i","s"," ","d","h","a","r","m","a","?">>}

InitPrompt ==
    /\ mp_args \in [query : Queries, retrieved : RetrievedLists,
                    max_context_chars : 0..MaxContextChars]
    /\ mp_out = [done |-> FALSE, context_parts |-> <<>>, context |-> <<>>, prompt |-> <<>>]
    /\ CleanIdle /\ RetrieveIdle /\ ProcessIdle /\ RequestIdle /\ ClientIdle
    /\ StartupIdle

\* prompt = make_prompt(query, retrieved, max_context_chars)
MakePromptStep ==
    /\ ~mp_out.done
    /\ mp_out' =
          [done |-> TRUE,
           context_parts |-> ContextParts(mp_args.retrieved, mp_args.max_context_chars),
           context |-> Join(<<"\n">>, ContextParts(mp_args.retrieved, mp_args.max_context_chars)),
           prompt |-> make_prompt(mp_args.query, mp_args.retrieved, mp_args.max_context_chars)]
    /\ UNCHANGED <<mp_args, cleanVars, retrieveVars, clientVars, su, processVars, requestVars>>

NextPrompt == MakePromptStep

SpecPrompt == InitPrompt /\ [][NextPrompt]_vars

\* what a prompt holds between its "CONTEXT:\n" label and its "\nUSER QUERY:" label
ContextBlockOf(prompt, query) ==
    SubSeq(prompt,
           Len(INSTRUCTION) + Len(<<"\n","\n","C","O","N","T","E","X","T",":","\n">>) + 1,
           Len(prompt) - Len(<<"\n","\n","A","n","s","w","e","r",":">>) - Len(query) - Len(<<"\n","U","S","E","R"," ","Q","U","E","R","Y",":","\n">>))

\* C2 as claimed: the context block of the prompt, separators included, is
\* never longer than max_context_chars
C2_ContextBlockWithinBudget ==
    mp_out.done =>
        Len(ContextBlockOf(mp_out.prompt, mp_args.query)) <= mp_args.max_context_chars

\* C2 as amended: the kept entries, without the newlines that join them, are
\* together never longer than max_context_chars, so the context block of the
\* prompt exceeds the budget by at most the number of kept entries less one
C2_KeptEntriesWithinBudget ==
    mp_out.done =>
        LET block == ContextBlockOf(mp_out.prompt, mp_args.query)
            kept == Len(mp_out.context_parts)
            separators == IF kept = 0 THEN 0 ELSE kept - 1
        IN  /\ block = mp_out.context
            /\ Len(block) - separators <= mp_args.max_context_chars
            /\ Len(block) <= mp_args.max_context_chars + separators

\* a prompt whose context block is longer than the budget: two kept entries
\* fill the budget exactly and the newline between them is on top
C2_Witness ==
    /\ mp_out.done
    /\ Len(mp_out.context_parts) >= 2
    /\ Len(mp_out.context) > mp_args.max_context_chars

RECURSIVE EntriesLen(_, _)
\* len(entry) summed over the first k entries of the retrieved list
EntriesLen(given, k) ==
    IF k = 0 THEN 0 ELSE EntriesLen(given, k - 1) + Len(Entry(given[k]))

\* C23: the entries make_prompt keeps are the first entries of retrieved, in
\* the order of retrieved, and they are what the prompt's context block is
\* joined from; when an entry is left out it is the one whose length takes the
\* running total over max_context_chars, and no entry after it is kept
C23_KeptEntriesArePrefix ==
    mp_out.done =>
        LET kept == Len(mp_out.context_parts)
            given == mp_args.retrieved
        IN  /\ kept <= Len(given)
            /\ mp_out.context_parts = [i \in 1..kept |-> Entry(given[i])]
            /\ ContextBlockOf(mp_out.prompt, mp_args.query)
                   = Join(<<"\n">>, [i \in 1..kept |-> Entry(given[i])])
            /\ kept < Len(given)
                   => EntriesLen(given, kept + 1) > mp_args.max_context_chars

\* an entry is left out for the budget and the entry after it, which would
\* have fitted in what is left of the budget, is left out as well
C23_Witness ==
    /\ mp_out.done
    /\ LET kept == Len(mp_out.context_parts)
           given == mp_args.retrieved
       IN  /\ kept >= 1
           /\ kept + 2 <= Len(given)
           /\ EntriesLen(given, kept) + Len(Entry(given[kept + 2]))
                  <= mp_args.max_context_chars

(***************************************************************************)
(* The environment of a server process                                     *)
(***************************************************************************)
Variants == {"server", "faiss", "semantic"}

\* the passages of the corpus file (column 'translation')
Passages == <<<<"D","o"," ","y","o","u","r"," ","d","u","t","y",".">>, <<" ","T","h","e"," ","s","o","u","l"," ","i","s"," ","e","t","e","r","n","a","l"," ","\n">>, <<"A","c","t"," ","w","i","t","h","o","u","t"," ","a","t","t","a","c","h","m","e","n","t",
     ".">>>>

Corpus == [i \in 1..CorpusSize |-> Passages[((i - 1) % Len(Passages)) + 1]]

\* the cache file is absent (the index is then built for this corpus), or
\* was written for this corpus or for one a passage shorter or longer
IndexFiles == {-1, CorpusSize - 1, CorpusSize, CorpusSize + 1}

\* what whisper returns as result["text"]
TranscriptTexts ==
    {<<>>, <<" "," "," ">>, <<" ","W","h","a","t"," ","i","s"," ","m","y"," ","d","u","t","y","?">>, <<" ","I"," ","f","e","e","l"," ","s","a","d","."," ","T","h","a","n","k"," ","Y","o","u",
     "!">>}

\* what a generation backend returns
GeneratedTexts ==
    {<<>>, <<"A","c","t","i","o","n"," ","(","i","d","=","1","2",","," ","s","c","o","r","e","=","0",
     ".","8","4","2","1",")"," ","m","a","t","t","e","r","s","."," ","*","D","o","*"," ",
     "i","t","."," ","[","i","d","=","7","]">>}

\* the similarity the index reports for the neighbour of each rank
SearchScores == <<9000, 8421, 5000, 1234, -500>>

\* the score that comes with the missing-neighbour marker -1
MissingScore == -(10000 * 10000)

\* index.search(q, top_k) on an index of ntotal vectors: top_k (position,
\* score) pairs by descending score, distinct positions of the index first
\* and the marker -1 where the index has no further vector; the nearest
\* position is any of the index and the others follow it cyclically
SearchResults(ntotal, top_k) ==
    LET found == IF ntotal < top_k THEN ntotal ELSE top_k
        firsts == IF ntotal = 0 THEN {0} ELSE 0..(ntotal - 1)
    IN  {[r \in 1..top_k |->
             IF r <= found THEN [idx |-> (first + r - 1) % ntotal, score |-> SearchScores[r]]
             ELSE [idx |-> -1, score |-> MissingScore]] : first \in firsts}

RECURSIVE SelectSeq2_mut(_, _)
\* the loop with `idx < len(texts_list)` as its only test: a negative
\* position indexes the list from its end
SelectSeq2_mut(hits, texts_list) ==
    IF hits = <<>> THEN <<>>
    ELSE LET h == Head(hits)
             rest == SelectSeq2_mut(Tail(hits), texts_list)
         IN  IF h.idx < Len(texts_list) /\ -Len(texts_list) <= h.idx
             THEN <<[idx |-> h.idx, score |-> h.score,
                     txt |-> texts_list[IF h.idx < 0 THEN Len(texts_list) + h.idx + 1
                                        ELSE h.idx + 1]]>> \o rest
             ELSE rest

RECURSIVE SelectSeq2(_, _)
\* the loop of retrieve: the hits whose position is inside the corpus
SelectSeq2(hits, texts_list) ==
    IF hits = <<>> THEN <<>>
    ELSE LET h == Head(hits)
             rest == SelectSeq2(Tail(hits), texts_list)
         IN  IF 0 <= h.idx /\ h.idx < Len(texts_list)
             THEN <<[idx |-> h.idx, score |-> h.score, txt |-> texts_list[h.idx + 1]]>> \o rest
             ELSE rest

\* `not query` only
IsBlank_mut(query) == query = <<>>

\* `not query or not query.strip()`
IsBlank(query) == query = <<>> \/ Strip(query) = <<>>

\* retrieve(query, index, texts_list, embedder_local, top_k), the encoder
\* and the index answering as env says
retrieve(query, texts_list, env) ==
    IF IsBlank(query)
    THEN [raised |-> FALSE, results |-> <<>>, calls |-> <<"retrieve">>, failed |-> {}]
    ELSE IF ~env.encode_ok
    THEN [raised |-> TRUE, results |-> <<>>, calls |-> <<"retrieve", "encode">>,
          failed |-> {"encode"}]
    ELSE IF ~env.search_ok
    THEN [raised |-> TRUE, results |-> <<>>, calls |-> <<"retrieve", "encode", "search">>,
          failed |-> {"search"}]
    ELSE [raised |-> FALSE, results |-> SelectSeq2(env.hits, texts_list),
          calls |-> <<"retrieve", "encode", "search">>, failed |-> {}]

(***************************************************************************)
(* retrieve called on a query, a corpus and an index of any vector count   *)
(***************************************************************************)
RetrieveQueries ==
    {<<>>, <<" "," "," ">>, <<" ","\t","\n">>, <<" ","d","u","t","y"," ">>, <<"W","h","a","t"," ","i","s"," ","d","h","a","r","m","a","?">>}

\* what index.search may place in indices[0]: any positions, the marker -1
\* and positions of an index longer than the corpus among them
HitLists(top_k) ==
    {[r \in 1..top_k |-> [idx |-> f[r], score |-> SearchScores[r]]] :
        f \in [1..top_k -> -1..(CorpusSize + 1)]}

InitRetrieve ==
    /\ \E n \in 0..CorpusSize, top_k \in 1..MaxTopK :
          rt_args \in [query : RetrieveQueries,
                       texts_list : {SubSeq(Corpus, 1, n)},
                       top_k : {top_k},
                       env : [encode_ok : BOOLEAN, search_ok : BOOLEAN,
                              hits : HitLists(top_k)]]
    /\ rt_out = [done |-> FALSE, raised |-> FALSE, results |-> <<>>, calls |-> <<>>,
                 failed |-> {}]
    /\ CleanIdle /\ PromptIdle /\ ProcessIdle /\ RequestIdle /\ ClientIdle
    /\ StartupIdle

\* results = retrieve(query, index, texts_list, embedder_local, top_k)
RetrieveStep ==
    /\ ~rt_out.done
    /\ LET r == retrieve(rt_args.query, rt_args.texts_list, rt_args.env)
       IN  rt_out' = [done |-> TRUE, raised |-> r.raised, results |-> r.results,
                      calls |-> r.calls, failed |-> r.failed]
    /\ UNCHANGED <<rt_args, cleanVars, promptVars, clientVars, su, processVars, requestVars>>

NextRetrieve == RetrieveStep

SpecRetrieve == InitRetrieve /\ [][NextRetrieve]_vars

\* C11: retrieve called with an empty or whitespace-only query returns the
\* empty list, without raising and without calling the encoder or the index
\* search, whatever top_k is
C11_BlankQueryRetrievesNothing ==
    (rt_out.done /\ \A i \in DOMAIN rt_args.query : rt_args.query[i] \in SpaceChars)
    => /\ rt_out.results = <<>>
       /\ ~rt_out.raised
       /\ Range(rt_out.calls) \cap {"encode", "search"} = {}
       /\ rt_out.failed = {}

\* retrieve has returned for a query of white space only, the encoder being
\* one that would have raised
C11_Witness ==
    /\ rt_out.done
    /\ rt_args.query # <<>>
    /\ \A i \in DOMAIN rt_args.query : rt_args.query[i] \in SpaceChars
    /\ ~rt_args.env.encode_ok
    /\ rt_args.top_k > 1
    /\ rt_out.results = <<>>

\* C12: whatever positions the index search returns (the marker -1 and
\* positions at or beyond the corpus size included), every result of
\* retrieve has 0 <= id < corpus size and the corpus text of that position,
\* the results are hits of the search in the order of the search, and there
\* are at most top_k of them
C12_ResultsInsideCorpus ==
    rt_out.done =>
        LET results == rt_out.results
            hits == rt_args.env.hits
            texts_list == rt_args.texts_list
        IN  /\ Len(results) <= rt_args.top_k
            /\ \A i \in DOMAIN results :
                  /\ 0 <= results[i].idx /\ results[i].idx < Len(texts_list)
                  /\ results[i].txt = texts_list[results[i].idx + 1]
            /\ \E f \in [DOMAIN results -> DOMAIN hits] :
                  /\ \A i, j \in DOMAIN results : i < j => f[i] < f[j]
                  /\ \A i \in DOMAIN results :
                        /\ results[i].idx = hits[f[i]].idx
                        /\ results[i].score = hits[f[i]].score

\* a search that returned the marker -1, a position beyond the corpus and a
\* position of the corpus: retrieve kept the last one only
C12_Witness ==
    /\ rt_out.done
    /\ \E i \in DOMAIN rt_args.env.hits : rt_args.env.hits[i].idx = -1
    /\ \E i \in DOMAIN rt_args.env.hits : rt_args.env.hits[i].idx >= Len(rt_args.texts_list)
    /\ Len(rt_args.texts_list) > 0
    /\ Len(rt_out.results) = 1
    /\ Len(rt_out.results) < rt_args.top_k

APOLOGY ==
    <<"I","'","m"," ","s","o","r","r","y"," ","U+2014"," ","t","h","e"," ","l","a","n","g","u",
     "a","g","e"," ","m","o","d","e","l"," ","i","s"," ","c","u","r","r","e","n","t","l",
     "y"," ","u","n","a","v","a","i","l","a","b","l","e",".">>

\* safe_generate without its last except clause turning the failure into the
\* apology: the text stays empty
\* safe_generate running the transformers pipeline whatever Ollama did, and
\* returning its text when it has one
safe_generate_both(has_ollama, env) ==
    LET before == IF has_ollama THEN <<"ollama">> ELSE <<>>
        broken == IF has_ollama /\ ~env.ollama_ok THEN {"ollama"} ELSE {}
    IN  IF env.transformers_ok
        THEN [text |-> env.transformers_text,
              calls |-> before \o <<"transformers">>, failed |-> broken]
        ELSE [text |-> IF has_ollama /\ env.ollama_ok THEN env.ollama_text ELSE APOLOGY,
              calls |-> before \o <<"transformers">>,
              failed |-> broken \cup {"transformers"}]

safe_generate_mut(has_ollama, env) ==
    IF has_ollama /\ env.ollama_ok
    THEN [text |-> env.ollama_text, calls |-> <<"ollama">>, failed |-> {}]
    ELSE LET before == IF has_ollama THEN <<"ollama">> ELSE <<>>
             broken == IF has_ollama THEN {"ollama"} ELSE {}
         IN  IF env.transformers_ok
             THEN [text |-> env.transformers_text,
                   calls |-> before \o <<"transformers">>, failed |-> broken]
             ELSE [text |-> <<>>,
                   calls |-> before \o <<"transformers">>,
                   failed |-> broken \cup {"transformers"}]

\* safe_generate(prompt): Ollama when the import succeeded, transformers when
\* Ollama is absent or raised, the apology when transformers raised
safe_generate(has_ollama, env) ==
    IF has_ollama /\ env.ollama_ok
    THEN [text |-> env.ollama_text, calls |-> <<"ollama">>, failed |-> {}]
    ELSE LET before == IF has_ollama THEN <<"ollama">> ELSE <<>>
             broken == IF has_ollama THEN {"ollama"} ELSE {}
         IN  IF env.transformers_ok
             THEN [text |-> env.transformers_text,
                   calls |-> before \o <<"transformers">>, failed |-> broken]
             ELSE [text |-> APOLOGY,
                   calls |-> before \o <<"transformers">>,
                   failed |-> broken \cup {"transformers"}]

\* _piper_init_once without `if _piper_voice is not None: return True`: the
\* voice is loaded anew by every call
piper_init_once_mut(voice, has_piper, load) ==
    IF ~has_piper THEN [voice |-> voice, ok |-> FALSE]
    ELSE IF load = "nofile" THEN [voice |-> voice, ok |-> FALSE]
    ELSE IF load = "ok" THEN [voice |-> "loaded", ok |-> TRUE]
    ELSE [voice |-> "None", ok |-> FALSE]

\* _piper_init_once(): the voice handle afterwards and the value returned
piper_init_once(voice, has_piper, load) ==
    IF ~has_piper THEN [voice |-> voice, ok |-> FALSE]
    ELSE IF voice # "None" THEN [voice |-> voice, ok |-> TRUE]
    ELSE IF load = "nofile" THEN [voice |-> voice, ok |-> FALSE]
    ELSE IF load = "ok" THEN [voice |-> "loaded", ok |-> TRUE]
    ELSE [voice |-> "None", ok |-> FALSE]

TtsLoads == {"nofile", "loadfail", "ok"}
\* a backend raises or gives WAV bytes; the file pyttsx3 was to write may
\* also be read back empty
TtsOutcomes == {"raise", "bytes"}
TtsEnvs == [piper_load : TtsLoads, piper_synth : TtsOutcomes,
            pyttsx3 : TtsOutcomes \cup {"empty"}, sapi : TtsOutcomes]

\* the SAPI attempt outside a try: its exception leaves generate_tts_audio
tts_sapi_mut(voice, env, cs, fs) ==
    IF env.sapi = "raise"
    THEN [audio |-> "null", voice |-> voice, raised |-> TRUE,
          calls |-> cs \o <<"sapi">>, failed |-> fs \cup {"sapi"}]
    ELSE [audio |-> IF env.sapi = "bytes" THEN "sapi" ELSE "empty", voice |-> voice,
          raised |-> FALSE, calls |-> cs \o <<"sapi">>, failed |-> fs]

\* the SAPI attempt of generate_tts_audio, the last one
tts_sapi(voice, env, cs, fs) ==
    IF env.sapi = "raise"
    THEN [audio |-> "null", voice |-> voice, raised |-> FALSE,
          calls |-> cs \o <<"sapi">>, failed |-> fs \cup {"sapi"}]
    ELSE [audio |-> IF env.sapi = "bytes" THEN "sapi" ELSE "empty", voice |-> voice,
          raised |-> FALSE, calls |-> cs \o <<"sapi">>, failed |-> fs]

\* the pyttsx3 attempt of generate_tts_audio and what follows it
tts_pyttsx3(voice, env, cs, fs) ==
    IF env.pyttsx3 = "raise"
    THEN tts_sapi(voice, env, cs \o <<"pyttsx3">>, fs \cup {"pyttsx3"})
    ELSE [audio |-> IF env.pyttsx3 = "bytes" THEN "pyttsx3" ELSE "empty", voice |-> voice,
          raised |-> FALSE, calls |-> cs \o <<"pyttsx3">>, failed |-> fs]

\* generate_tts_audio(text, preferred="piper"): the WAV bytes ("null" for
\* None, "empty" for b"", else the backend that made them), the voice handle
\* afterwards and whether the function raised; "piper_load" is recorded when
\* this call loaded the voice
generate_tts_audio(voice, has_piper, env) ==
    IF ~has_piper THEN tts_pyttsx3(voice, env, <<>>, {})
    ELSE LET init == piper_init_once(voice, has_piper, env.piper_load)
             tried == IF init.voice # voice THEN <<"piper_load", "piper">> ELSE <<"piper">>
         IN  IF ~init.ok \/ env.piper_synth = "raise"
             THEN tts_pyttsx3(init.voice, env, tried, {"piper"})
             ELSE IF env.piper_synth = "empty"
             THEN tts_pyttsx3(init.voice, env, tried, {})
             ELSE [audio |-> "piper", voice |-> init.voice, raised |-> FALSE,
                   calls |-> tried, failed |-> {}]

\* tts_bytes.hex() if tts_bytes else None
AudioField(tts_bytes) == IF tts_bytes \in {"null", "empty"} THEN "null" ELSE tts_bytes

Min(a, b) == IF a < b THEN a ELSE b

\* formatted_response of server.py
FormattedResponse(response, verses) ==
    <<"=","=","="," ","A","I"," ","R","e","s","p","o","n","s","e"," ","=","=","=","\n">> \o Strip(response) \o <<"\n","\n">> \o
    (IF verses # <<>>
     THEN <<"=","=","="," ","T","o","p"," ","S","o","u","r","c","e"," ","V","e","r","s","e","(","s",
     ")"," ","=","=","=","\n">> \o
          Flatten([k \in 1..Min(Len(verses), TOP_K) |->
                      <<"\n","(","i","d","=">> \o IntToStr(verses[k].idx) \o <<","," ","s","c","o","r","e","=">>
                      \o FormatScore(verses[k].score) \o <<")","\n">> \o verses[k].txt
                      \o <<"\n","-","-","-","\n">>])
     ELSE <<"(","N","o"," ","v","e","r","s","e","s"," ","r","e","t","r","i","e","v","e","d",".",")",
     "\n">>)

(***************************************************************************)
(* Start of a server process                                               *)
(***************************************************************************)
InitEnvs == [whisper_ok : BOOLEAN, df_ok : BOOLEAN, index_ok : BOOLEAN, piper_load : TtsLoads]

\* initialize_models() of server.py; an exception it does not catch ends
\* the process
InitializeModels(env) ==
    /\ variant = "server"
    /\ phase \in {"startup", "serving"}
    /\ whisper_model = "None"
    /\ IF ~env.whisper_ok
       THEN /\ phase' = "exited"
            /\ UNCHANGED <<modelHandles, piper_voice, index_file>>
       ELSE IF ~env.df_ok
       THEN /\ phase' = "exited"
            /\ whisper_model' = "loaded"
            /\ UNCHANGED <<df, embedder, faiss_index, texts, piper_voice, index_file>>
       ELSE IF ~env.index_ok
       THEN /\ phase' = "exited"
            /\ whisper_model' = "loaded"
            /\ df' = "loaded"
            /\ UNCHANGED <<embedder, faiss_index, texts, piper_voice, index_file>>
       ELSE /\ phase' = "serving"
            /\ whisper_model' = "loaded"
            /\ df' = "loaded"
            /\ embedder' = "loaded"
            /\ texts' = Corpus
            /\ faiss_index' = [ntotal |-> IF index_file >= 0 THEN index_file ELSE Len(Corpus)]
            /\ index_file' = IF index_file >= 0 THEN index_file ELSE Len(Corpus)
            /\ piper_voice' = IF HAS_PIPER
                              THEN piper_init_once(piper_voice, HAS_PIPER, env.piper_load).voice
                              ELSE piper_voice
    /\ UNCHANGED <<variant, HAS_OLLAMA, HAS_PIPER, cleanVars, promptVars, retrieveVars,
                   clientVars, su, requestVars>>

\* the Flask app of a script served without its __main__ block having run:
\* nothing is loaded
ServeUninitialized ==
    /\ phase = "startup"
    /\ phase' = "serving"
    /\ UNCHANGED <<variant, HAS_OLLAMA, HAS_PIPER, modelHandles, piper_voice, index_file,
                   cleanVars, promptVars, retrieveVars, clientVars, su, requestVars>>

\* health() of server.py with a constant answer
health_mut(whisper) == [status |-> 200, models_loaded |-> TRUE]

\* health() of server.py: jsonify({"status": "healthy", "models_loaded":
\* whisper_model is not None}), 200
health_response(whisper) == [status |-> 200, models_loaded |-> whisper # "None"]

\* GET /health: the answer is sent and nothing of the process changes
Health ==
    /\ variant = "server"
    /\ phase = "serving"
    /\ health_response(whisper_model).status = 200
    /\ UNCHANGED vars

(***************************************************************************)
(* process_audio of server.py, one stage of the turn per action            *)
(***************************************************************************)
\* the arrival with the body examined before the models
Receive_audio_first(n) ==
    /\ variant = "server"
    /\ phase = "serving"
    /\ pc \in {"idle", "done"}
    /\ nreq < MaxRequests
    /\ nreq' = nreq + 1
    /\ audio_bytes' = n
    /\ transcribed_text' = <<>> /\ retrieved' = <<>>
    /\ response_text_raw' = <<>> /\ response_text' = <<>> /\ tts_text' = <<>>
    /\ calls' = <<>> /\ failed' = {}
    /\ IF n = 0
       THEN pc' = "done" /\ resp' = ErrorResp(400, "no_audio")
       ELSE IF whisper_model = "None"
       THEN pc' = "done" /\ resp' = ErrorResp(503, "models_not_loaded")
       ELSE IF n % 2 # 0
       THEN pc' = "done" /\ resp' = ErrorResp(400, "parse_failed")
       ELSE pc' = "transcribe" /\ resp' = NoResp
    /\ UNCHANGED <<cleanVars, promptVars, retrieveVars, clientVars, su, processVars>>

\* the arrival without the check of the models: the missing model is met by
\* the transcription, whose failure is answered with status 500
Receive_unguarded(n) ==
    /\ variant = "server"
    /\ phase = "serving"
    /\ pc \in {"idle", "done"}
    /\ nreq < MaxRequests
    /\ nreq' = nreq + 1
    /\ audio_bytes' = n
    /\ transcribed_text' = <<>> /\ retrieved' = <<>>
    /\ response_text_raw' = <<>> /\ response_text' = <<>> /\ tts_text' = <<>>
    /\ IF n = 0
       THEN pc' = "done" /\ resp' = ErrorResp(400, "no_audio")
            /\ calls' = <<>> /\ failed' = {}
       ELSE IF n % 2 # 0
       THEN pc' = "done" /\ resp' = ErrorResp(400, "parse_failed")
            /\ calls' = <<>> /\ failed' = {}
       ELSE IF whisper_model = "None"
       THEN pc' = "done" /\ resp' = ErrorResp(500, "transcription_failed")
            /\ calls' = <<"transcribe_direct", "transcribe_file">>
            /\ failed' = {"transcribe_direct", "transcribe_file"}
       ELSE pc' = "transcribe" /\ resp' = NoResp
            /\ calls' = <<>> /\ failed' = {}
    /\ UNCHANGED <<cleanVars, promptVars, retrieveVars, clientVars, su, processVars>>

\* the request arrives: the checks before any stage, and np.frombuffer
Receive(n) ==
    /\ variant = "server"
    /\ phase = "serving"
    /\ pc \in {"idle", "done"}
    /\ nreq < MaxRequests
    /\ nreq' = nreq + 1
    /\ audio_bytes' = n
    /\ transcribed_text' = <<>> /\ retrieved' = <<>>
    /\ response_text_raw' = <<>> /\ response_text' = <<>> /\ tts_text' = <<>>
    /\ calls' = <<>> /\ failed' = {}
    /\ IF whisper_model = "None"
       THEN pc' = "done" /\ resp' = ErrorResp(503, "models_not_loaded")
       ELSE IF n = 0
       THEN pc' = "done" /\ resp' = ErrorResp(400, "no_audio")
       ELSE IF n % 2 # 0
       THEN pc' = "done" /\ resp' = ErrorResp(400, "parse_failed")
       ELSE pc' = "transcribe" /\ resp' = NoResp
    /\ UNCHANGED <<cleanVars, promptVars, retrieveVars, clientVars, su, processVars>>

\* whisper_model.transcribe(audio_float32): on success the stripped text
TranscribeDirect(ok, t) ==
    /\ variant = "server"
    /\ pc = "transcribe"
    /\ calls' = Append(calls, "transcribe_direct")
    /\ IF ok
       THEN /\ transcribed_text' = Strip(t)
            /\ pc' = "retrieve"
            /\ UNCHANGED failed
       ELSE /\ failed' = failed \cup {"transcribe_direct"}
            /\ pc' = "transcribe_file"
            /\ UNCHANGED transcribed_text
    /\ UNCHANGED <<nreq, audio_bytes, retrieved, response_text_raw, response_text, tts_text,
                   resp, cleanVars, promptVars, retrieveVars, clientVars, su, processVars>>

\* the fallback with its failure swallowed: the turn goes on with no text
TranscribeFile_mut(ok, t) ==
    /\ variant = "server"
    /\ pc = "transcribe_file"
    /\ calls' = Append(calls, "transcribe_file")
    /\ transcribed_text' = IF ok THEN Strip(t) ELSE <<>>
    /\ failed' = IF ok THEN failed ELSE failed \cup {"transcribe_file"}
    /\ pc' = "retrieve"
    /\ UNCHANGED <<nreq, audio_bytes, retrieved, response_text_raw, response_text, tts_text,
                   resp, cleanVars, promptVars, retrieveVars, clientVars, su, processVars>>

\* the except branch: the samples written to a temporary WAV file, which is
\* transcribed; a second failure ends the turn
TranscribeFile(ok, t) ==
    /\ variant = "server"
    /\ pc = "transcribe_file"
    /\ calls' = Append(calls, "transcribe_file")
    /\ IF ok
       THEN /\ transcribed_text' = Strip(t)
            /\ pc' = "retrieve"
            /\ UNCHANGED <<failed, resp>>
       ELSE /\ failed' = failed \cup {"transcribe_file"}
            /\ pc' = "done"
            /\ resp' = ErrorResp(500, "transcription_failed")
            /\ UNCHANGED transcribed_text
    /\ UNCHANGED <<nreq, audio_bytes, retrieved, response_text_raw, response_text, tts_text,
                   cleanVars, promptVars, retrieveVars, clientVars, su, processVars>>

RetrieveEnvs ==
    [encode_ok : BOOLEAN, search_ok : BOOLEAN,
     hits : SearchResults(faiss_index.ntotal, TOP_K)]

\* retrieve(...) and make_prompt(...); an exception of the encoder or of the
\* index reaches the handler's last except clause
Retrieve(env) ==
    /\ variant = "server"
    /\ pc = "retrieve"
    /\ LET r == retrieve(transcribed_text, texts, env)
       IN  /\ failed' = failed \cup r.failed
           /\ IF r.raised
              THEN /\ calls' = calls \o r.calls
                   /\ pc' = "done"
                   /\ resp' = ErrorResp(500, "unhandled")
                   /\ UNCHANGED retrieved
              ELSE /\ calls' = calls \o r.calls \o <<"make_prompt">>
                   /\ retrieved' = r.results
                   /\ pc' = "generate"
                   /\ UNCHANGED resp
    /\ UNCHANGED <<nreq, audio_bytes, transcribed_text, response_text_raw, response_text,
                   tts_text, cleanVars, promptVars, retrieveVars, clientVars, su, processVars>>

GenerateEnvs ==
    [ollama_ok : BOOLEAN, ollama_text : GeneratedTexts,
     transformers_ok : BOOLEAN, transformers_text : GeneratedTexts]

\* the generation with no apology behind it: both backends failing reaches
\* the handler's last except clause
Generate_mut(env) ==
    /\ variant = "server"
    /\ pc = "generate"
    /\ LET g == safe_generate(HAS_OLLAMA, env)
       IN  /\ calls' = calls \o <<"safe_generate">> \o g.calls
           /\ failed' = failed \cup g.failed
           /\ IF "transformers" \in g.failed
              THEN /\ pc' = "done"
                   /\ resp' = ErrorResp(500, "unhandled")
                   /\ UNCHANGED <<response_text_raw, response_text>>
              ELSE /\ response_text_raw' = g.text
                   /\ response_text' = clean_response_text(g.text)
                   /\ pc' = "synthesize"
                   /\ UNCHANGED resp
    /\ UNCHANGED <<nreq, audio_bytes, transcribed_text, retrieved, tts_text,
                   cleanVars, promptVars, retrieveVars, clientVars, su, processVars>>

\* response_text_raw = safe_generate(prompt), then clean_response_text
Generate(env) ==
    /\ variant = "server"
    /\ pc = "generate"
    /\ LET g == safe_generate(HAS_OLLAMA, env)
       IN  /\ response_text_raw' = g.text
           /\ response_text' = clean_response_text(g.text)
           /\ calls' = calls \o <<"safe_generate">> \o g.calls \o <<"clean_response_text">>
           /\ failed' = failed \cup g.failed
    /\ pc' = "synthesize"
    /\ UNCHANGED <<nreq, audio_bytes, transcribed_text, retrieved, tts_text, resp,
                   cleanVars, promptVars, retrieveVars, clientVars, su, processVars>>

\* generate_tts_audio(response_text) inside its try, then the 200 response
Synthesize(env) ==
    /\ variant = "server"
    /\ pc = "synthesize"
    /\ LET s == generate_tts_audio(piper_voice, HAS_PIPER, env)
           tts_bytes == IF s.raised THEN "null" ELSE s.audio
       IN  /\ tts_text' = response_text
           /\ piper_voice' = s.voice
           /\ calls' = calls \o <<"generate_tts_audio">> \o s.calls
           /\ failed' = failed \cup s.failed
                           \cup (IF s.raised THEN {"generate_tts_audio"} ELSE {})
           /\ resp' = [NoResp EXCEPT
                          !.status = 200,
                          !.transcription = transcribed_text,
                          !.response = response_text,
                          !.formatted_response = FormattedResponse(response_text, retrieved),
                          !.audio = AudioField(tts_bytes),
                          !.response_raw = response_text_raw]
    /\ pc' = "done"
    /\ UNCHANGED <<nreq, audio_bytes, transcribed_text, retrieved, response_text_raw,
                   response_text, cleanVars, promptVars, retrieveVars, clientVars, su, variant, phase,
                   HAS_OLLAMA, HAS_PIPER, modelHandles, index_file>>

(***************************************************************************)
(* server_faiss_semantic.py and server_semantic.py                         *)
(***************************************************************************)
EXIT_PHRASES ==
    <<<<"t","h","a","n","k"," ","y","o","u">>,
    <<"t","h","a","n","k","s">>,
    <<"t","h","a","t","'","s"," ","a","l","l">>,
    <<"n","o","t","h","i","n","g"," ","e","l","s","e">>,
    <<"g","o","o","d","b","y","e">>>>

FAREWELL ==
    <<"U+1F64F"," ","T","h","a","n","k"," ","y","o","u"," ","f","o","r"," ","s","e","e","k","i",
     "n","g"," ","G","i","t","a"," ","w","i","s","d","o","m","."," ","M","a","y"," ","y",
     "o","u"," ","f","i","n","d"," ","p","e","a","c","e"," ","a","n","d"," ","f","u","l",
     "f","i","l","l","m","e","n","t"," ","o","n"," ","y","o","u","r"," ","s","p","i","r",
     "i","t","u","a","l"," ","j","o","u","r","n","e","y","."," ","O","m"," ","S","h","a",
     "n","t","i","!">>

\* the exit check without .lower()
EndConversation_mut(transcription) ==
    \E k \in DOMAIN EXIT_PHRASES : Contains(transcription, EXIT_PHRASES[k])

\* any(phrase in transcription.lower() for phrase in EXIT_PHRASES)
EndConversation(transcription) ==
    LET lowered == LowerStr(transcription)
    IN  \E k \in DOMAIN EXIT_PHRASES : Contains(lowered, EXIT_PHRASES[k])

\* FOLLOW_UP_PHRASES of server_faiss_semantic.py
FAISS_FOLLOW_UP ==
    <<<<"I","s"," ","t","h","e","r","e"," ","a","n","y","t","h","i","n","g"," ","e","l","s","e",
     " ","I"," ","c","a","n"," ","h","e","l","p"," ","y","o","u"," ","w","i","t","h","?">>,
    <<"W","o","u","l","d"," ","y","o","u"," ","l","i","k","e"," ","t","o"," ","e","x","p","l",
     "o","r","e"," ","t","h","i","s"," ","t","e","a","c","h","i","n","g"," ","f","u","r",
     "t","h","e","r","?">>,
    <<"A","n","y"," ","o","t","h","e","r"," ","s","p","i","r","i","t","u","a","l"," ","q","u",
     "e","s","t","i","o","n","s","?">>,
    <<"W","o","u","l","d"," ","y","o","u"," ","l","i","k","e"," ","m","o","r","e"," ","g","u",
     "i","d","a","n","c","e"," ","o","n"," ","t","h","i","s"," ","t","o","p","i","c","?">>>>

\* FOLLOW_UP_PHRASES of server_semantic.py
SEM_FOLLOW_UP ==
    <<<<"I","s"," ","t","h","e","r","e"," ","a","n","y","t","h","i","n","g"," ","e","l","s","e",
     " ","I"," ","c","a","n"," ","h","e","l","p"," ","y","o","u"," ","w","i","t","h","?">>,
    <<"W","o","u","l","d"," ","y","o","u"," ","l","i","k","e"," ","t","o"," ","e","x","p","l",
     "o","r","e"," ","t","h","i","s"," ","t","e","a","c","h","i","n","g"," ","f","u","r",
     "t","h","e","r","?">>,
    <<"A","n","y"," ","o","t","h","e","r"," ","s","p","i","r","i","t","u","a","l"," ","q","u",
     "e","s","t","i","o","n","s","?">>>>

\* intents of understand_question_intent, in the order of the dict
FAISS_INTENTS ==
    <<[intent |-> "tiredness_laziness", keywords |->
      <<<<"l","a","z","y">>,
        <<"t","i","r","e","d">>,
        <<"f","a","t","i","g","u","e">>,
        <<"e","x","h","a","u","s","t","e","d">>,
        <<"u","n","m","o","t","i","v","a","t","e","d">>,
        <<"l","e","t","h","a","r","g","y">>,
        <<"e","n","e","r","g","y">>,
        <<"m","o","t","i","v","a","t","i","o","n">>,
        <<"p","r","o","c","r","a","s","t","i","n","a","t","i","o","n">>,
        <<"w","e","a","k","n","e","s","s">>>>],
    [intent |-> "sadness_depression", keywords |->
      <<<<"s","a","d">>,
        <<"s","a","d","n","e","s","s">>,
        <<"d","e","p","r","e","s","s","e","d">>,
        <<"d","e","p","r","e","s","s","i","o","n">>,
        <<"s","o","r","r","o","w">>,
        <<"g","r","i","e","f">>,
        <<"u","n","h","a","p","p","y">>,
        <<"m","e","l","a","n","c","h","o","l","y">>,
        <<"d","o","w","n">>,
        <<"b","l","u","e">>,
        <<"h","o","p","e","l","e","s","s">>>>],
    [intent |-> "fear_anxiety", keywords |->
      <<<<"f","e","a","r">>,
        <<"a","f","r","a","i","d">>,
        <<"s","c","a","r","e","d">>,
        <<"a","n","x","i","e","t","y">>,
        <<"a","n","x","i","o","u","s">>,
        <<"w","o","r","r","y">>,
        <<"w","o","r","r","i","e","d">>,
        <<"p","a","n","i","c">>,
        <<"n","e","r","v","o","u","s">>,
        <<"f","r","i","g","h","t","e","n","e","d">>,
        <<"t","e","r","r","o","r">>>>],
    [intent |-> "life_purpose", keywords |->
      <<<<"p","u","r","p","o","s","e">>,
        <<"m","e","a","n","i","n","g">>,
        <<"d","i","r","e","c","t","i","o","n">>,
        <<"p","a","t","h">>,
        <<"c","a","l","l","i","n","g">>,
        <<"d","e","s","t","i","n","y">>,
        <<"g","o","a","l">>,
        <<"m","i","s","s","i","o","n">>,
        <<"d","h","a","r","m","a">>,
        <<"w","h","y"," ","a","m"," ","i"," ","h","e","r","e">>,
        <<"w","h","a","t"," ","s","h","o","u","l","d"," ","i"," ","d","o">>>>],
    [intent |-> "anger_conflict", keywords |->
      <<<<"a","n","g","r","y">>,
        <<"a","n","g","e","r">>,
        <<"m","a","d">>,
        <<"f","u","r","i","o","u","s">>,
        <<"c","o","n","f","l","i","c","t">>,
        <<"f","i","g","h","t">>,
        <<"a","r","g","u","m","e","n","t">>,
        <<"f","r","u","s","t","r","a","t","e","d">>,
        <<"r","a","g","e">>,
        <<"h","a","t","e">>,
        <<"r","e","s","e","n","t","m","e","n","t">>>>],
    [intent |-> "attachment_loss", keywords |->
      <<<<"a","t","t","a","c","h","m","e","n","t">>,
        <<"l","o","s","s">>,
        <<"l","o","s","t">>,
        <<"l","e","t","t","i","n","g"," ","g","o">>,
        <<"d","e","t","a","c","h","m","e","n","t">>,
        <<"p","o","s","s","e","s","s","i","o","n">>,
        <<"c","l","i","n","g","i","n","g">>,
        <<"b","r","e","a","k","u","p">>,
        <<"d","e","a","t","h">>,
        <<"s","e","p","a","r","a","t","i","o","n">>>>],
    [intent |-> "doubt_confusion", keywords |->
      <<<<"d","o","u","b","t">>,
        <<"c","o","n","f","u","s","e","d">>,
        <<"c","o","n","f","u","s","i","o","n">>,
        <<"u","n","c","e","r","t","a","i","n">>,
        <<"u","n","s","u","r","e">>,
        <<"l","o","s","t">>,
        <<"d","e","c","i","s","i","o","n">>,
        <<"c","h","o","i","c","e">>,
        <<"d","i","l","e","m","m","a">>>>],
    [intent |-> "spiritual_practice", keywords |->
      <<<<"m","e","d","i","t","a","t","i","o","n">>,
        <<"p","r","a","y","e","r">>,
        <<"d","e","v","o","t","i","o","n">>,
        <<"w","o","r","s","h","i","p">>,
        <<"s","p","i","r","i","t","u","a","l">>,
        <<"e","n","l","i","g","h","t","e","n","m","e","n","t">>,
        <<"m","o","k","s","h","a">>,
        <<"l","i","b","e","r","a","t","i","o","n">>>>],
    [intent |-> "relationships", keywords |->
      <<<<"r","e","l","a","t","i","o","n","s","h","i","p">>,
        <<"l","o","v","e">>,
        <<"f","a","m","i","l","y">>,
        <<"f","r","i","e","n","d","s">>,
        <<"m","a","r","r","i","a","g","e">>,
        <<"p","a","r","e","n","t","s">>,
        <<"c","h","i","l","d","r","e","n">>,
        <<"s","o","c","i","e","t","y">>>>],
    [intent |-> "work_duty", keywords |->
      <<<<"w","o","r","k">>,
        <<"j","o","b">>,
        <<"c","a","r","e","e","r">>,
        <<"d","u","t","y">>,
        <<"r","e","s","p","o","n","s","i","b","i","l","i","t","y">>,
        <<"s","e","r","v","i","c","e">>,
        <<"p","r","o","f","e","s","s","i","o","n">>,
        <<"b","u","s","i","n","e","s","s">>>>]>>

\* intent_context of generate_contextual_response
FAISS_INTENT_CONTEXT ==
    <<[intent |-> "tiredness_laziness", context |->
      <<"K","r","i","s","h","n","a"," ","t","e","a","c","h","e","s"," ","t","h","a","t"," ","l",
     "a","z","i","n","e","s","s"," ","c","o","m","e","s"," ","f","r","o","m"," ","a","t",
     "t","a","c","h","m","e","n","t"," ","t","o"," ","r","e","s","u","l","t","s"," ","a",
     "n","d"," ","f","e","a","r"," ","o","f"," ","f","a","i","l","u","r","e","."," ","T",
     "h","e"," ","s","o","l","u","t","i","o","n"," ","i","s"," ","n","o","t"," ","i","n",
     "a","c","t","i","o","n",","," ","b","u","t"," ","a","c","t","i","o","n"," ","w","i",
     "t","h","o","u","t"," ","a","t","t","a","c","h","m","e","n","t",".">>],
    [intent |-> "sadness_depression", context |->
      <<"T","h","e"," ","G","i","t","a"," ","r","e","m","i","n","d","s"," ","u","s"," ","t","h",
     "a","t"," ","o","u","r"," ","t","r","u","e"," ","n","a","t","u","r","e"," ","i","s",
     " ","t","h","e"," ","e","t","e","r","n","a","l"," ","s","o","u","l",","," ","b","e",
     "y","o","n","d"," ","a","l","l"," ","t","e","m","p","o","r","a","r","y"," ","s","o",
     "r","r","o","w","s","."," ","T","h","i","s"," ","w","i","s","d","o","m"," ","b","r",
     "i","n","g","s"," ","l","a","s","t","i","n","g"," ","p","e","a","c","e",".">>],
    [intent |-> "fear_anxiety", context |->
      <<"F","e","a","r"," ","a","r","i","s","e","s"," ","f","r","o","m"," ","t","h","e"," ","i",
     "l","l","u","s","i","o","n"," ","o","f"," ","s","e","p","a","r","a","t","e","n","e",
     "s","s","."," ","W","h","e","n"," ","y","o","u"," ","r","e","a","l","i","z","e"," ",
     "y","o","u","r"," ","c","o","n","n","e","c","t","i","o","n"," ","t","o"," ","t","h",
     "e"," ","D","i","v","i","n","e",","," ","f","e","a","r"," ","n","a","t","u","r","a",
     "l","l","y"," ","d","i","s","s","o","l","v","e","s",".">>],
    [intent |-> "life_purpose", context |->
      <<"Y","o","u","r"," ","d","h","a","r","m","a"," ","(","l","i","f","e"," ","p","u","r","p",
     "o","s","e",")"," ","i","s"," ","u","n","i","q","u","e"," ","t","o"," ","y","o","u",
     "r"," ","n","a","t","u","r","e"," ","a","n","d"," ","c","i","r","c","u","m","s","t",
     "a","n","c","e","s","."," ","T","h","e"," ","G","i","t","a"," ","g","u","i","d","e",
     "s"," ","y","o","u"," ","t","o"," ","d","i","s","c","o","v","e","r"," ","a","n","d",
     " ","f","o","l","l","o","w"," ","y","o","u","r"," ","a","u","t","h","e","n","t","i",
     "c"," ","p","a","t","h",".">>],
    [intent |-> "anger_conflict", context |->
      <<"A","n","g","e","r"," ","c","l","o","u","d","s"," ","j","u","d","g","m","e","n","t"," ",
     "a","n","d"," ","l","e","a","d","s"," ","t","o"," ","p","o","o","r"," ","d","e","c",
     "i","s","i","o","n","s","."," ","T","h","e"," ","G","i","t","a"," ","t","e","a","c",
     "h","e","s"," ","e","m","o","t","i","o","n","a","l"," ","m","a","s","t","e","r","y",
     " ","t","h","r","o","u","g","h"," ","s","p","i","r","i","t","u","a","l"," ","u","n",
     "d","e","r","s","t","a","n","d","i","n","g",".">>],
    [intent |-> "attachment_loss", context |->
      <<"A","t","t","a","c","h","m","e","n","t"," ","t","o"," ","t","e","m","p","o","r","a","r",
     "y"," ","t","h","i","n","g","s"," ","c","a","u","s","e","s"," ","s","u","f","f","e",
     "r","i","n","g","."," ","T","r","u","e"," ","j","o","y"," ","c","o","m","e","s"," ",
     "f","r","o","m"," ","l","o","v","i","n","g"," ","w","i","t","h","o","u","t"," ","p",
     "o","s","s","e","s","s","i","n","g"," ","a","n","d"," ","g","i","v","i","n","g"," ",
     "w","i","t","h","o","u","t"," ","e","x","p","e","c","t","i","n","g",".">>],
    [intent |-> "doubt_confusion", context |->
      <<"W","h","e","n"," ","c","o","n","f","u","s","e","d",","," ","s","e","e","k"," ","w","i",
     "s","d","o","m"," ","f","r","o","m"," ","s","a","c","r","e","d"," ","t","e","x","t",
     "s"," ","a","n","d"," ","w","i","s","e"," ","t","e","a","c","h","e","r","s","."," ",
     "T","h","e"," ","D","i","v","i","n","e"," ","g","u","i","d","e","s"," ","t","h","o",
     "s","e"," ","w","h","o"," ","s","i","n","c","e","r","e","l","y"," ","s","e","e","k",
     " ","t","r","u","t","h",".">>],
    [intent |-> "spiritual_practice", context |->
      <<"R","e","g","u","l","a","r"," ","s","p","i","r","i","t","u","a","l"," ","p","r","a","c",
     "t","i","c","e"," ","p","u","r","i","f","i","e","s"," ","t","h","e"," ","m","i","n",
     "d"," ","a","n","d"," ","r","e","v","e","a","l","s"," ","y","o","u","r"," ","t","r",
     "u","e"," ","n","a","t","u","r","e","."," ","C","o","n","s","i","s","t","e","n","c",
     "y"," ","i","s"," ","m","o","r","e"," ","i","m","p","o","r","t","a","n","t"," ","t",
     "h","a","n"," ","i","n","t","e","n","s","i","t","y",".">>],
    [intent |-> "relationships", context |->
      <<"S","e","e"," ","t","h","e"," ","D","i","v","i","n","e"," ","i","n"," ","a","l","l"," ",
     "b","e","i","n","g","s","."," ","L","o","v","e"," ","u","n","c","o","n","d","i","t",
     "i","o","n","a","l","l","y",","," ","s","e","r","v","e"," ","s","e","l","f","l","e",
     "s","s","l","y",","," ","a","n","d"," ","m","a","i","n","t","a","i","n"," ","y","o",
     "u","r"," ","i","n","n","e","r"," ","p","e","a","c","e"," ","r","e","g","a","r","d",
     "l","e","s","s"," ","o","f"," ","o","t","h","e","r","s","'"," ","a","c","t","i","o",
     "n","s",".">>],
    [intent |-> "work_duty", context |->
      <<"P","e","r","f","o","r","m"," ","y","o","u","r"," ","w","o","r","k"," ","a","s"," ","w",
     "o","r","s","h","i","p","."," ","E","x","c","e","l","l","e","n","c","e"," ","i","n",
     " ","a","c","t","i","o","n",","," ","w","i","t","h","o","u","t"," ","a","t","t","a",
     "c","h","m","e","n","t"," ","t","o"," ","r","e","s","u","l","t","s",","," ","l","e",
     "a","d","s"," ","t","o"," ","b","o","t","h"," ","s","u","c","c","e","s","s"," ","a",
     "n","d"," ","s","p","i","r","i","t","u","a","l"," ","g","r","o","w","t","h",".">>]>>

\* fallback_verses of get_fallback_verses
FAISS_FALLBACK_VERSES ==
    <<<<"Y","o","u"," ","h","a","v","e"," ","t","h","e"," ","r","i","g","h","t"," ","t","o"," ",
     "p","e","r","f","o","r","m"," ","y","o","u","r"," ","a","c","t","i","o","n","s",",",
     " ","b","u","t"," ","y","o","u"," ","a","r","e"," ","n","o","t"," ","e","n","t","i",
     "t","l","e","d"," ","t","o"," ","t","h","e"," ","f","r","u","i","t","s"," ","o","f",
     " ","y","o","u","r"," ","a","c","t","i","o","n","s","."," ","N","e","v","e","r"," ",
     "l","e","t"," ","t","h","e"," ","f","r","u","i","t","s"," ","o","f"," ","a","c","t",
     "i","o","n"," ","b","e"," ","y","o","u","r"," ","m","o","t","i","v","e",","," ","n",
     "o","r"," ","l","e","t"," ","y","o","u","r"," ","a","t","t","a","c","h","m","e","n",
     "t"," ","b","e"," ","t","o"," ","i","n","a","c","t","i","o","n",".">>,
    <<"F","o","r"," ","t","h","e"," ","s","o","u","l"," ","t","h","e","r","e"," ","i","s"," ",
     "n","e","i","t","h","e","r"," ","b","i","r","t","h"," ","n","o","r"," ","d","e","a",
     "t","h","."," ","I","t"," ","i","s"," ","n","o","t"," ","s","l","a","i","n"," ","w",
     "h","e","n"," ","t","h","e"," ","b","o","d","y"," ","i","s"," ","s","l","a","i","n",
     "."," ","T","h","e"," ","s","o","u","l"," ","i","s"," ","u","n","b","o","r","n",",",
     " ","e","t","e","r","n","a","l",","," ","p","e","r","m","a","n","e","n","t",","," ",
     "a","n","d"," ","p","r","i","m","e","v","a","l",".">>,
    <<"B","e","t","t","e","r"," ","i","s"," ","y","o","u","r"," ","o","w","n"," ","d","h","a",
     "r","m","a",","," ","t","h","o","u","g","h"," ","i","m","p","e","r","f","e","c","t",
     "l","y"," ","p","e","r","f","o","r","m","e","d",","," ","t","h","a","n"," ","t","h",
     "e"," ","d","h","a","r","m","a"," ","o","f"," ","a","n","o","t","h","e","r"," ","w",
     "e","l","l"," ","p","e","r","f","o","r","m","e","d","."," ","B","e","t","t","e","r",
     " ","i","s"," ","d","e","a","t","h"," ","i","n"," ","t","h","e"," ","p","e","r","f",
     "o","r","m","a","n","c","e"," ","o","f"," ","o","n","e","'","s"," ","o","w","n"," ",
     "d","h","a","r","m","a",";"," ","t","h","e"," ","d","h","a","r","m","a"," ","o","f",
     " ","a","n","o","t","h","e","r"," ","i","s"," ","f","r","a","u","g","h","t"," ","w",
     "i","t","h"," ","d","a","n","g","e","r",".">>,
    <<"W","h","e","n"," ","m","e","d","i","t","a","t","i","o","n"," ","i","s"," ","m","a","s",
     "t","e","r","e","d",","," ","t","h","e"," ","m","i","n","d"," ","i","s"," ","u","n",
     "w","a","v","e","r","i","n","g"," ","l","i","k","e"," ","t","h","e"," ","f","l","a",
     "m","e"," ","o","f"," ","a"," ","l","a","m","p"," ","i","n"," ","a"," ","w","i","n",
     "d","l","e","s","s"," ","p","l","a","c","e",".">>,
    <<"W","h","a","t","e","v","e","r"," ","y","o","u"," ","d","o",","," ","w","h","a","t","e",
     "v","e","r"," ","y","o","u"," ","e","a","t",","," ","w","h","a","t","e","v","e","r",
     " ","y","o","u"," ","o","f","f","e","r"," ","i","n"," ","s","a","c","r","i","f","i",
     "c","e",","," ","w","h","a","t","e","v","e","r"," ","y","o","u"," ","g","i","v","e",
     " ","a","w","a","y",","," ","w","h","a","t","e","v","e","r"," ","a","u","s","t","e",
     "r","i","t","i","e","s"," ","y","o","u"," ","p","r","a","c","t","i","c","e"," ","-",
     " ","d","o"," ","t","h","a","t"," ","a","s"," ","a","n"," ","o","f","f","e","r","i",
     "n","g"," ","t","o"," ","t","h","e"," ","D","i","v","i","n","e",".">>>>

\* the if/elif chain of understand_question, in its order
SEM_BRANCHES ==
    <<[question_type |-> "laziness_tiredness", words |->
      <<<<"l","a","z","y">>,
        <<"t","i","r","e","d">>,
        <<"f","a","t","i","g","u","e">>,
        <<"e","x","h","a","u","s","t","e","d">>,
        <<"u","n","m","o","t","i","v","a","t","e","d">>,
        <<"l","e","t","h","a","r","g","y">>,
        <<"e","n","e","r","g","y">>,
        <<"m","o","t","i","v","a","t","i","o","n">>,
        <<"p","r","o","c","r","a","s","t","i","n","a","t","i","o","n">>>>],
    [question_type |-> "sadness_depression", words |->
      <<<<"s","a","d">>,
        <<"s","a","d","n","e","s","s">>,
        <<"d","e","p","r","e","s","s","e","d">>,
        <<"d","e","p","r","e","s","s","i","o","n">>,
        <<"s","o","r","r","o","w">>,
        <<"g","r","i","e","f">>,
        <<"u","n","h","a","p","p","y">>,
        <<"m","e","l","a","n","c","h","o","l","y">>,
        <<"d","o","w","n">>,
        <<"b","l","u","e">>>>],
    [question_type |-> "fear_anxiety", words |->
      <<<<"f","e","a","r">>,
        <<"a","f","r","a","i","d">>,
        <<"s","c","a","r","e","d">>,
        <<"a","n","x","i","e","t","y">>,
        <<"a","n","x","i","o","u","s">>,
        <<"w","o","r","r","y">>,
        <<"w","o","r","r","i","e","d">>,
        <<"p","a","n","i","c">>,
        <<"n","e","r","v","o","u","s">>,
        <<"f","r","i","g","h","t","e","n","e","d">>>>],
    [question_type |-> "life_purpose", words |->
      <<<<"p","u","r","p","o","s","e">>,
        <<"m","e","a","n","i","n","g">>,
        <<"d","i","r","e","c","t","i","o","n">>,
        <<"p","a","t","h">>,
        <<"c","a","l","l","i","n","g">>,
        <<"d","e","s","t","i","n","y">>,
        <<"g","o","a","l">>,
        <<"m","i","s","s","i","o","n">>,
        <<"d","h","a","r","m","a">>,
        <<"w","h","y"," ","a","m"," ","i"," ","h","e","r","e">>>>],
    [question_type |-> "anger_conflict", words |->
      <<<<"a","n","g","r","y">>,
        <<"a","n","g","e","r">>,
        <<"m","a","d">>,
        <<"f","u","r","i","o","u","s">>,
        <<"c","o","n","f","l","i","c","t">>,
        <<"f","i","g","h","t">>,
        <<"a","r","g","u","m","e","n","t">>,
        <<"f","r","u","s","t","r","a","t","e","d">>,
        <<"r","a","g","e">>,
        <<"h","a","t","e">>>>],
    [question_type |-> "attachment_loss", words |->
      <<<<"a","t","t","a","c","h","m","e","n","t">>,
        <<"l","o","s","s">>,
        <<"l","o","s","t">>,
        <<"l","e","t","t","i","n","g"," ","g","o">>,
        <<"d","e","t","a","c","h","m","e","n","t">>,
        <<"p","o","s","s","e","s","s","i","o","n">>,
        <<"c","l","i","n","g","i","n","g">>,
        <<"b","r","e","a","k","u","p">>,
        <<"d","e","a","t","h">>,
        <<"s","e","p","a","r","a","t","i","o","n">>>>],
    [question_type |-> "doubt_confusion", words |->
      <<<<"d","o","u","b","t">>,
        <<"c","o","n","f","u","s","e","d">>,
        <<"c","o","n","f","u","s","i","o","n">>,
        <<"u","n","c","e","r","t","a","i","n">>,
        <<"u","n","s","u","r","e">>,
        <<"l","o","s","t">>,
        <<"d","i","r","e","c","t","i","o","n">>,
        <<"d","e","c","i","s","i","o","n">>,
        <<"c","h","o","i","c","e">>>>]>>

SPIRITUAL_RESPONSES ==
    <<[question_type |-> "laziness_tiredness",
     verse |->
      <<"Y","o","u"," ","h","a","v","e"," ","t","h","e"," ","r","i","g","h","t"," ","t","o"," ",
     "p","e","r","f","o","r","m"," ","y","o","u","r"," ","a","c","t","i","o","n","s",",",
     " ","b","u","t"," ","y","o","u"," ","a","r","e"," ","n","o","t"," ","e","n","t","i",
     "t","l","e","d"," ","t","o"," ","t","h","e"," ","f","r","u","i","t","s"," ","o","f",
     " ","y","o","u","r"," ","a","c","t","i","o","n","s","."," ","N","e","v","e","r"," ",
     "l","e","t"," ","t","h","e"," ","f","r","u","i","t","s"," ","o","f"," ","a","c","t",
     "i","o","n"," ","b","e"," ","y","o","u","r"," ","m","o","t","i","v","e",","," ","n",
     "o","r"," ","l","e","t"," ","y","o","u","r"," ","a","t","t","a","c","h","m","e","n",
     "t"," ","b","e"," ","t","o"," ","i","n","a","c","t","i","o","n","."," ","(","C","h",
     "a","p","t","e","r"," ","2",","," ","V","e","r","s","e"," ","4","7",")">>,
     explanation |->
      <<"K","r","i","s","h","n","a"," ","t","e","a","c","h","e","s"," ","t","h","a","t"," ","w",
     "h","e","n"," ","w","e"," ","f","e","e","l"," ","l","a","z","y"," ","o","r"," ","t",
     "i","r","e","d",","," ","t","h","e"," ","s","o","l","u","t","i","o","n"," ","i","s",
     " ","n","o","t"," ","t","o"," ","a","v","o","i","d"," ","a","c","t","i","o","n",",",
     " ","b","u","t"," ","t","o"," ","a","c","t"," ","w","i","t","h","o","u","t"," ","a",
     "t","t","a","c","h","m","e","n","t"," ","t","o"," ","r","e","s","u","l","t","s",".",
     " ","L","a","z","i","n","e","s","s"," ","o","f","t","e","n"," ","c","o","m","e","s",
     " ","f","r","o","m"," ","f","e","a","r"," ","o","f"," ","f","a","i","l","u","r","e",
     " ","o","r"," ","b","e","i","n","g"," ","o","v","e","r","w","h","e","l","m","e","d",
     " ","b","y"," ","o","u","t","c","o","m","e","s","."," ","W","h","e","n"," ","y","o",
     "u"," ","f","o","c","u","s"," ","o","n","l","y"," ","o","n"," ","d","o","i","n","g",
     " ","y","o","u","r"," ","d","u","t","y"," ","s","i","n","c","e","r","e","l","y",",",
     " ","w","i","t","h","o","u","t"," ","w","o","r","r","y","i","n","g"," ","a","b","o",
     "u","t"," ","s","u","c","c","e","s","s"," ","o","r"," ","f","a","i","l","u","r","e",
     ","," ","a","c","t","i","o","n"," ","b","e","c","o","m","e","s"," ","e","f","f","o",
     "r","t","l","e","s","s"," ","a","n","d"," ","e","n","e","r","g","i","z","i","n","g",
     ".">>,
     guidance |->
      <<"S","t","a","r","t"," ","w","i","t","h"," ","s","m","a","l","l",","," ","m","a","n","a",
     "g","e","a","b","l","e"," ","t","a","s","k","s","."," ","D","e","d","i","c","a","t",
     "e"," ","y","o","u","r"," ","e","f","f","o","r","t","s"," ","t","o"," ","a"," ","h",
     "i","g","h","e","r"," ","p","u","r","p","o","s","e","."," ","R","e","m","e","m","b",
     "e","r"," ","t","h","a","t"," ","e","v","e","n"," ","s","m","a","l","l"," ","r","i",
     "g","h","t","e","o","u","s"," ","a","c","t","i","o","n","s"," ","p","u","r","i","f",
     "y"," ","t","h","e"," ","m","i","n","d"," ","a","n","d"," ","b","u","i","l","d"," ",
     "s","p","i","r","i","t","u","a","l"," ","s","t","r","e","n","g","t","h",".">>],
    [question_type |-> "sadness_depression",
     verse |->
      <<"F","o","r"," ","t","h","e"," ","s","o","u","l"," ","t","h","e","r","e"," ","i","s"," ",
     "n","e","i","t","h","e","r"," ","b","i","r","t","h"," ","n","o","r"," ","d","e","a",
     "t","h","."," ","I","t"," ","i","s"," ","n","o","t"," ","s","l","a","i","n"," ","w",
     "h","e","n"," ","t","h","e"," ","b","o","d","y"," ","i","s"," ","s","l","a","i","n",
     "."," ","T","h","e"," ","s","o","u","l"," ","i","s"," ","u","n","b","o","r","n",",",
     " ","e","t","e","r","n","a","l",","," ","p","e","r","m","a","n","e","n","t",","," ",
     "a","n","d"," ","p","r","i","m","e","v","a","l","."," ","(","C","h","a","p","t","e",
     "r"," ","2",","," ","V","e","r","s","e"," ","2","0",")">>,
     explanation |->
      <<"K","r","i","s","h","n","a"," ","r","e","m","i","n","d","s"," ","A","r","j","u","n","a",
     " ","(","a","n","d"," ","u","s",")"," ","t","h","a","t"," ","o","u","r"," ","t","r",
     "u","e"," ","n","a","t","u","r","e"," ","i","s"," ","t","h","e"," ","e","t","e","r",
     "n","a","l"," ","s","o","u","l",","," ","w","h","i","c","h"," ","i","s"," ","b","e",
     "y","o","n","d"," ","a","l","l"," ","t","e","m","p","o","r","a","r","y"," ","e","m",
     "o","t","i","o","n","s"," ","l","i","k","e"," ","s","a","d","n","e","s","s","."," ",
     "S","a","d","n","e","s","s"," ","c","o","m","e","s"," ","f","r","o","m"," ","i","d",
     "e","n","t","i","f","y","i","n","g"," ","w","i","t","h"," ","t","h","e"," ","t","e",
     "m","p","o","r","a","r","y"," ","-"," ","o","u","r"," ","c","i","r","c","u","m","s",
     "t","a","n","c","e","s",","," ","r","e","l","a","t","i","o","n","s","h","i","p","s",
     ","," ","a","c","h","i","e","v","e","m","e","n","t","s","."," ","B","u","t"," ","y",
     "o","u"," ","a","r","e"," ","t","h","e"," ","e","t","e","r","n","a","l"," ","w","i",
     "t","n","e","s","s"," ","o","f"," ","a","l","l"," ","t","h","e","s","e"," ","c","h",
     "a","n","g","i","n","g"," ","e","x","p","e","r","i","e","n","c","e","s",".">>,
     guidance |->
      <<"P","r","a","c","t","i","c","e"," ","s","e","e","i","n","g"," ","y","o","u","r","s","e",
     "l","f"," ","a","s"," ","t","h","e"," ","o","b","s","e","r","v","e","r"," ","o","f",
     " ","y","o","u","r"," ","e","m","o","t","i","o","n","s"," ","r","a","t","h","e","r",
     " ","t","h","a","n"," ","b","e","i","n","g"," ","o","v","e","r","w","h","e","l","m",
     "e","d"," ","b","y"," ","t","h","e","m","."," ","E","n","g","a","g","e"," ","i","n",
     " ","m","e","d","i","t","a","t","i","o","n",","," ","s","e","l","f","l","e","s","s",
     " ","s","e","r","v","i","c","e",","," ","a","n","d"," ","r","e","m","e","m","b","e",
     "r"," ","t","h","a","t"," ","'","t","h","i","s"," ","t","o","o"," ","s","h","a","l",
     "l"," ","p","a","s","s",".","'">>],
    [question_type |-> "fear_anxiety",
     verse |->
      <<"A","b","a","n","d","o","n"," ","a","l","l"," ","v","a","r","i","e","t","i","e","s"," ",
     "o","f"," ","d","h","a","r","m","a"," ","a","n","d"," ","j","u","s","t"," ","s","u",
     "r","r","e","n","d","e","r"," ","u","n","t","o"," ","M","e","."," ","I"," ","s","h",
     "a","l","l"," ","d","e","l","i","v","e","r"," ","y","o","u"," ","f","r","o","m"," ",
     "a","l","l"," ","s","i","n","f","u","l"," ","r","e","a","c","t","i","o","n","s",".",
     " ","D","o"," ","n","o","t"," ","f","e","a","r","."," ","(","C","h","a","p","t","e",
     "r"," ","1","8",","," ","V","e","r","s","e"," ","6","6",")">>,
     explanation |->
      <<"F","e","a","r"," ","c","o","m","e","s"," ","f","r","o","m"," ","t","h","e"," ","i","l",
     "l","u","s","i","o","n"," ","t","h","a","t"," ","w","e"," ","a","r","e"," ","a","l",
     "o","n","e"," ","a","n","d"," ","m","u","s","t"," ","c","o","n","t","r","o","l"," ",
     "e","v","e","r","y","t","h","i","n","g","."," ","K","r","i","s","h","n","a"," ","a",
     "s","s","u","r","e","s"," ","u","s"," ","t","h","a","t"," ","w","h","e","n"," ","w",
     "e"," ","s","u","r","r","e","n","d","e","r"," ","o","u","r"," ","e","g","o"," ","a",
     "n","d"," ","t","r","u","s","t"," ","i","n"," ","t","h","e"," ","D","i","v","i","n",
     "e"," ","p","l","a","n",","," ","w","e"," ","a","r","e"," ","p","r","o","t","e","c",
     "t","e","d","."," ","T","h","e"," ","D","i","v","i","n","e"," ","c","o","n","s","c",
     "i","o","u","s","n","e","s","s"," ","t","h","a","t"," ","r","u","n","s"," ","t","h",
     "e"," ","e","n","t","i","r","e"," ","u","n","i","v","e","r","s","e"," ","i","s"," ",
     "t","h","e"," ","s","a","m","e"," ","c","o","n","s","c","i","o","u","s","n","e","s",
     "s"," ","w","i","t","h","i","n"," ","y","o","u",".">>,
     guidance |->
      <<"P","r","a","c","t","i","c","e"," ","s","u","r","r","e","n","d","e","r"," ","t","h","r",
     "o","u","g","h"," ","p","r","a","y","e","r"," ","a","n","d"," ","m","e","d","i","t",
     "a","t","i","o","n","."," ","F","a","c","e"," ","y","o","u","r"," ","f","e","a","r",
     "s"," ","w","i","t","h"," ","c","o","u","r","a","g","e",","," ","k","n","o","w","i",
     "n","g"," ","t","h","a","t"," ","y","o","u"," ","a","r","e"," ","n","e","v","e","r",
     " ","a","l","o","n","e","."," ","T","a","k","e"," ","r","i","g","h","t","e","o","u",
     "s"," ","a","c","t","i","o","n"," ","d","e","s","p","i","t","e"," ","f","e","a","r",
     " ","-"," ","c","o","u","r","a","g","e"," ","i","s"," ","n","o","t"," ","t","h","e",
     " ","a","b","s","e","n","c","e"," ","o","f"," ","f","e","a","r",","," ","b","u","t",
     " ","a","c","t","i","o","n"," ","i","n"," ","s","p","i","t","e"," ","o","f"," ","i",
     "t",".">>],
    [question_type |-> "life_purpose",
     verse |->
      <<"B","e","t","t","e","r"," ","i","s"," ","y","o","u","r"," ","o","w","n"," ","d","h","a",
     "r","m","a",","," ","t","h","o","u","g","h"," ","i","m","p","e","r","f","e","c","t",
     "l","y"," ","p","e","r","f","o","r","m","e","d",","," ","t","h","a","n"," ","t","h",
     "e"," ","d","h","a","r","m","a"," ","o","f"," ","a","n","o","t","h","e","r"," ","w",
     "e","l","l"," ","p","e","r","f","o","r","m","e","d","."," ","B","e","t","t","e","r",
     " ","i","s"," ","d","e","a","t","h"," ","i","n"," ","t","h","e"," ","p","e","r","f",
     "o","r","m","a","n","c","e"," ","o","f"," ","o","n","e","'","s"," ","o","w","n"," ",
     "d","h","a","r","m","a",";"," ","t","h","e"," ","d","h","a","r","m","a"," ","o","f",
     " ","a","n","o","t","h","e","r"," ","i","s"," ","f","r","a","u","g","h","t"," ","w",
     "i","t","h"," ","d","a","n","g","e","r","."," ","(","C","h","a","p","t","e","r"," ",
     "3",","," ","V","e","r","s","e"," ","3","5",")">>,
     explanation |->
      <<"Y","o","u","r"," ","l","i","f","e"," ","p","u","r","p","o","s","e"," ","(","d","h","a",
     "r","m","a",")"," ","i","s"," ","u","n","i","q","u","e"," ","t","o"," ","y","o","u",
     " ","-"," ","b","a","s","e","d"," ","o","n"," ","y","o","u","r"," ","n","a","t","u",
     "r","e",","," ","a","b","i","l","i","t","i","e","s",","," ","a","n","d"," ","c","i",
     "r","c","u","m","s","t","a","n","c","e","s","."," ","K","r","i","s","h","n","a"," ",
     "t","e","a","c","h","e","s"," ","t","h","a","t"," ","i","t","'","s"," ","b","e","t",
     "t","e","r"," ","t","o"," ","f","o","l","l","o","w"," ","y","o","u","r"," ","o","w",
     "n"," ","p","a","t","h"," ","i","m","p","e","r","f","e","c","t","l","y"," ","t","h",
     "a","n"," ","t","o"," ","p","e","r","f","e","c","t","l","y"," ","i","m","i","t","a",
     "t","e"," ","s","o","m","e","o","n","e"," ","e","l","s","e","'","s"," ","p","a","t",
     "h","."," ","Y","o","u","r"," ","a","u","t","h","e","n","t","i","c"," ","p","u","r",
     "p","o","s","e"," ","b","r","i","n","g","s"," ","f","u","l","f","i","l","l","m","e",
     "n","t"," ","a","n","d"," ","c","o","n","t","r","i","b","u","t","e","s"," ","t","o",
     " ","c","o","s","m","i","c"," ","h","a","r","m","o","n","y",".">>,
     guidance |->
      <<"R","e","f","l","e","c","t"," ","o","n"," ","y","o","u","r"," ","n","a","t","u","r","a",
     "l"," ","t","a","l","e","n","t","s",","," ","w","h","a","t"," ","b","r","i","n","g",
     "s"," ","y","o","u"," ","j","o","y",","," ","a","n","d"," ","h","o","w"," ","y","o",
     "u"," ","c","a","n"," ","s","e","r","v","e"," ","o","t","h","e","r","s","."," ","Y",
     "o","u","r"," ","d","h","a","r","m","a"," ","i","s"," ","w","h","e","r","e"," ","y",
     "o","u","r"," ","g","i","f","t","s"," ","m","e","e","t"," ","t","h","e"," ","w","o",
     "r","l","d","'","s"," ","n","e","e","d","s","."," ","T","r","u","s","t"," ","y","o",
     "u","r"," ","i","n","n","e","r"," ","w","i","s","d","o","m"," ","a","n","d"," ","t",
     "a","k","e"," ","s","t","e","p","s"," ","t","o","w","a","r","d"," ","y","o","u","r",
     " ","a","u","t","h","e","n","t","i","c"," ","p","a","t","h",".">>],
    [question_type |-> "anger_conflict",
     verse |->
      <<"A","n","g","e","r"," ","l","e","a","d","s"," ","t","o"," ","c","l","o","u","d","i","n",
     "g"," ","o","f"," ","j","u","d","g","m","e","n","t",","," ","w","h","i","c","h"," ",
     "r","e","s","u","l","t","s"," ","i","n"," ","b","e","w","i","l","d","e","r","m","e",
     "n","t"," ","o","f"," ","t","h","e"," ","m","e","m","o","r","y","."," ","W","h","e",
     "n"," ","t","h","e"," ","m","e","m","o","r","y"," ","i","s"," ","b","e","w","i","l",
     "d","e","r","e","d",","," ","t","h","e"," ","i","n","t","e","l","l","e","c","t"," ",
     "g","e","t","s"," ","d","e","s","t","r","o","y","e","d",";"," ","a","n","d"," ","w",
     "h","e","n"," ","t","h","e"," ","i","n","t","e","l","l","e","c","t"," ","i","s"," ",
     "d","e","s","t","r","o","y","e","d",","," ","o","n","e"," ","i","s"," ","r","u","i",
     "n","e","d","."," ","(","C","h","a","p","t","e","r"," ","2",","," ","V","e","r","s",
     "e"," ","6","3",")">>,
     explanation |->
      <<"K","r","i","s","h","n","a"," ","e","x","p","l","a","i","n","s"," ","t","h","e"," ","d",
     "e","s","t","r","u","c","t","i","v","e"," ","c","h","a","i","n"," ","r","e","a","c",
     "t","i","o","n"," ","o","f"," ","a","n","g","e","r","."," ","W","h","e","n"," ","w",
     "e","'","r","e"," ","a","n","g","r","y",","," ","w","e"," ","l","o","s","e"," ","o",
     "u","r"," ","a","b","i","l","i","t","y"," ","t","o"," ","t","h","i","n","k"," ","c",
     "l","e","a","r","l","y",","," ","m","a","k","e"," ","p","o","o","r"," ","d","e","c",
     "i","s","i","o","n","s",","," ","a","n","d"," ","u","l","t","i","m","a","t","e","l",
     "y"," ","h","a","r","m"," ","o","u","r","s","e","l","v","e","s"," ","a","n","d"," ",
     "o","t","h","e","r","s","."," ","T","h","e"," ","s","o","l","u","t","i","o","n"," ",
     "i","s"," ","t","o"," ","d","e","v","e","l","o","p"," ","e","m","o","t","i","o","n",
     "a","l"," ","m","a","s","t","e","r","y"," ","t","h","r","o","u","g","h"," ","s","p",
     "i","r","i","t","u","a","l"," ","p","r","a","c","t","i","c","e",".">>,
     guidance |->
      <<"W","h","e","n"," ","a","n","g","e","r"," ","a","r","i","s","e","s",","," ","p","a","u",
     "s","e"," ","a","n","d"," ","b","r","e","a","t","h","e"," ","d","e","e","p","l","y",
     "."," ","R","e","m","e","m","b","e","r"," ","t","h","i","s"," ","t","e","a","c","h",
     "i","n","g"," ","a","n","d"," ","c","h","o","o","s","e"," ","y","o","u","r"," ","r",
     "e","s","p","o","n","s","e"," ","c","o","n","s","c","i","o","u","s","l","y","."," ",
     "P","r","a","c","t","i","c","e"," ","s","e","e","i","n","g"," ","t","h","e"," ","D",
     "i","v","i","n","e"," ","i","n"," ","a","l","l"," ","b","e","i","n","g","s"," ","-",
     " ","t","h","i","s"," ","n","a","t","u","r","a","l","l","y"," ","d","i","s","s","o",
     "l","v","e","s"," ","a","n","g","e","r"," ","a","n","d"," ","c","u","l","t","i","v",
     "a","t","e","s"," ","c","o","m","p","a","s","s","i","o","n",".">>],
    [question_type |-> "attachment_loss",
     verse |->
      <<"Y","o","u"," ","c","a","m","e"," ","e","m","p","t","y","-","h","a","n","d","e","d",",",
     " ","a","n","d"," ","y","o","u"," ","w","i","l","l"," ","l","e","a","v","e"," ","e",
     "m","p","t","y","-","h","a","n","d","e","d","."," ","W","h","a","t"," ","i","s"," ",
     "y","o","u","r","s"," ","t","o","d","a","y"," ","b","e","l","o","n","g","e","d"," ",
     "t","o"," ","s","o","m","e","o","n","e"," ","e","l","s","e"," ","y","e","s","t","e",
     "r","d","a","y",","," ","a","n","d"," ","w","i","l","l"," ","b","e","l","o","n","g",
     " ","t","o"," ","s","o","m","e","o","n","e"," ","e","l","s","e"," ","t","o","m","o",
     "r","r","o","w","."," ","C","h","a","n","g","e"," ","i","s"," ","t","h","e"," ","l",
     "a","w"," ","o","f"," ","t","h","e"," ","u","n","i","v","e","r","s","e","."," ","(",
     "C","h","a","p","t","e","r"," ","2",","," ","V","e","r","s","e"," ","2","7"," ","-",
     " ","e","x","p","a","n","d","e","d"," ","t","e","a","c","h","i","n","g",")">>,
     explanation |->
      <<"A","t","t","a","c","h","m","e","n","t"," ","t","o"," ","t","e","m","p","o","r","a","r",
     "y"," ","t","h","i","n","g","s"," ","-"," ","r","e","l","a","t","i","o","n","s","h",
     "i","p","s",","," ","p","o","s","s","e","s","s","i","o","n","s",","," ","a","c","h",
     "i","e","v","e","m","e","n","t","s"," ","-"," ","c","a","u","s","e","s"," ","s","u",
     "f","f","e","r","i","n","g","."," ","K","r","i","s","h","n","a"," ","t","e","a","c",
     "h","e","s"," ","t","h","a","t"," ","e","v","e","r","y","t","h","i","n","g"," ","i",
     "n"," ","t","h","e"," ","m","a","t","e","r","i","a","l"," ","w","o","r","l","d"," ",
     "i","s"," ","c","o","n","s","t","a","n","t","l","y"," ","c","h","a","n","g","i","n",
     "g","."," ","T","r","u","e"," ","p","e","a","c","e"," ","c","o","m","e","s"," ","f",
     "r","o","m"," ","l","o","v","i","n","g"," ","w","i","t","h","o","u","t"," ","a","t",
     "t","a","c","h","m","e","n","t"," ","a","n","d"," ","e","n","j","o","y","i","n","g",
     " ","w","i","t","h","o","u","t"," ","p","o","s","s","e","s","s","i","n","g",".">>,
     guidance |->
      <<"P","r","a","c","t","i","c","e"," ","g","r","a","t","i","t","u","d","e"," ","f","o","r",
     " ","w","h","a","t"," ","y","o","u"," ","h","a","v","e"," ","w","h","i","l","e"," ",
     "h","o","l","d","i","n","g"," ","i","t"," ","l","i","g","h","t","l","y","."," ","F",
     "o","c","u","s"," ","o","n"," ","g","i","v","i","n","g"," ","r","a","t","h","e","r",
     " ","t","h","a","n"," ","r","e","c","e","i","v","i","n","g","."," ","R","e","m","e",
     "m","b","e","r"," ","t","h","a","t"," ","l","o","v","e"," ","i","s"," ","a","b","o",
     "u","t"," ","t","h","e"," ","j","o","y"," ","o","f"," ","l","o","v","i","n","g",",",
     " ","n","o","t"," ","a","b","o","u","t"," ","p","o","s","s","e","s","s","i","o","n",
     " ","o","r"," ","c","o","n","t","r","o","l",".">>],
    [question_type |-> "doubt_confusion",
     verse |->
      <<"W","h","e","n","e","v","e","r"," ","r","i","g","h","t","e","o","u","s","n","e","s","s",
     " ","d","e","c","l","i","n","e","s"," ","a","n","d"," ","u","n","r","i","g","h","t",
     "e","o","u","s","n","e","s","s"," ","i","n","c","r","e","a","s","e","s",","," ","I",
     " ","m","a","n","i","f","e","s","t"," ","M","y","s","e","l","f","."," ","T","o"," ",
     "p","r","o","t","e","c","t"," ","t","h","e"," ","r","i","g","h","t","e","o","u","s",
     ","," ","t","o"," ","a","n","n","i","h","i","l","a","t","e"," ","t","h","e"," ","w",
     "i","c","k","e","d",","," ","a","n","d"," ","t","o"," ","r","e","e","s","t","a","b",
     "l","i","s","h"," ","t","h","e"," ","p","r","i","n","c","i","p","l","e","s"," ","o",
     "f"," ","d","h","a","r","m","a",","," ","I"," ","a","p","p","e","a","r"," ","m","i",
     "l","l","e","n","n","i","u","m"," ","a","f","t","e","r"," ","m","i","l","l","e","n",
     "n","i","u","m","."," ","(","C","h","a","p","t","e","r"," ","4",","," ","V","e","r",
     "s","e"," ","7","-","8",")">>,
     explanation |->
      <<"W","h","e","n"," ","y","o","u","'","r","e"," ","c","o","n","f","u","s","e","d"," ","a",
     "b","o","u","t"," ","r","i","g","h","t"," ","a","n","d"," ","w","r","o","n","g",",",
     " ","r","e","m","e","m","b","e","r"," ","t","h","a","t"," ","D","i","v","i","n","e",
     " ","w","i","s","d","o","m"," ","i","s"," ","a","l","w","a","y","s"," ","a","v","a",
     "i","l","a","b","l","e"," ","t","o"," ","g","u","i","d","e"," ","y","o","u","."," ",
     "T","r","u","t","h"," ","a","n","d"," ","r","i","g","h","t","e","o","u","s","n","e",
     "s","s"," ","a","r","e"," ","e","t","e","r","n","a","l"," ","p","r","i","n","c","i",
     "p","l","e","s"," ","t","h","a","t"," ","u","l","t","i","m","a","t","e","l","y"," ",
     "p","r","e","v","a","i","l","."," ","Y","o","u","r"," ","s","i","n","c","e","r","e",
     " ","s","e","e","k","i","n","g"," ","w","i","l","l"," ","b","e"," ","a","n","s","w",
     "e","r","e","d",".">>,
     guidance |->
      <<"I","n"," ","t","i","m","e","s"," ","o","f"," ","d","o","u","b","t",","," ","s","t","u",
     "d","y"," ","s","a","c","r","e","d"," ","t","e","x","t","s",","," ","s","e","e","k",
     " ","g","u","i","d","a","n","c","e"," ","f","r","o","m"," ","w","i","s","e"," ","t",
     "e","a","c","h","e","r","s",","," ","a","n","d"," ","t","r","u","s","t"," ","y","o",
     "u","r"," ","i","n","n","e","r"," ","m","o","r","a","l"," ","c","o","m","p","a","s",
     "s","."," ","T","h","e"," ","D","i","v","i","n","e"," ","r","e","s","p","o","n","d",
     "s"," ","t","o"," ","s","i","n","c","e","r","e"," ","s","e","e","k","i","n","g",".",
     " ","M","e","d","i","t","a","t","e"," ","a","n","d"," ","l","i","s","t","e","n"," ",
     "t","o"," ","y","o","u","r"," ","h","i","g","h","e","r"," ","w","i","s","d","o","m",
     ".">>]>>

\* understand_question_intent(query): primary_intent
understand_question_intent(query) ==
    LET query_lower == LowerStr(query)
        detected == {k \in DOMAIN FAISS_INTENTS :
                        \E w \in DOMAIN FAISS_INTENTS[k].keywords :
                            Contains(query_lower, FAISS_INTENTS[k].keywords[w])}
    IN  IF detected = {} THEN "general"
        ELSE FAISS_INTENTS[CHOOSE k \in detected : \A j \in detected : k <= j].intent

\* understand_question(query) of server_semantic.py
understand_question(query) ==
    LET query_lower == LowerStr(query)
        matching == {k \in DOMAIN SEM_BRANCHES :
                        \E w \in DOMAIN SEM_BRANCHES[k].words :
                            Contains(query_lower, SEM_BRANCHES[k].words[w])}
    IN  IF matching = {} THEN "life_purpose"
        ELSE SEM_BRANCHES[CHOOSE k \in matching : \A j \in matching : k <= j].question_type

\* s[:n]
Prefix(s, n) == SubSeq(s, 1, Min(Len(s), n))

\* generate_contextual_response(query, verse_results, intent)
generate_contextual_response(verse_results, intent) ==
    IF verse_results = <<>>
    THEN <<"T","h","e"," ","B","h","a","g","a","v","a","d"," ","G","i","t","a"," ","t","e","a","c",
     "h","e","s"," ","u","s"," ","t","h","a","t"," ","a","l","l"," ","s","u","f","f","e",
     "r","i","n","g"," ","c","o","m","e","s"," ","f","r","o","m"," ","i","g","n","o","r",
     "a","n","c","e"," ","o","f"," ","o","u","r"," ","t","r","u","e"," ","n","a","t","u",
     "r","e","."," ","S","e","e","k"," ","w","i","s","d","o","m"," ","t","h","r","o","u",
     "g","h"," ","r","i","g","h","t","e","o","u","s"," ","a","c","t","i","o","n",","," ",
     "d","e","v","o","t","i","o","n",","," ","a","n","d"," ","s","e","l","f","-","k","n",
     "o","w","l","e","d","g","e",".">>
    ELSE LET best_verse == verse_results[1]
             known == {k \in DOMAIN FAISS_INTENT_CONTEXT :
                          FAISS_INTENT_CONTEXT[k].intent = intent}
             context ==
                 IF known = {}
                 THEN <<"T","h","e"," ","e","t","e","r","n","a","l"," ","w","i","s","d","o","m"," ","o","f"," ",
     "t","h","e"," ","G","i","t","a"," ","p","r","o","v","i","d","e","s"," ","g","u","i",
     "d","a","n","c","e"," ","f","o","r"," ","a","l","l"," ","o","f"," ","l","i","f","e",
     "'","s"," ","c","h","a","l","l","e","n","g","e","s",".">>
                 ELSE FAISS_INTENT_CONTEXT[CHOOSE k \in known : TRUE].context
             response ==
                 <<"U+1F64F"," ","*","*","K","r","i","s","h","n","a","'","s"," ","G","u","i","d","a","n","c",
     "e",":","*","*","\n","\n","*","*","V","e","r","s","e">> \o best_verse.chapter_info
                 \o <<":","*","*"," ","\"">> \o Prefix(best_verse.verse, 300)
                 \o (IF Len(best_verse.verse) > 300 THEN <<".",".",".">> ELSE <<>>)
                 \o <<"\"","\n","\n","*","*","U","n","d","e","r","s","t","a","n","d","i","n","g",":","*","*"," ">> \o context
                 \o <<"\n","\n","*","*","P","r","a","c","t","i","c","a","l"," ","A","p","p","l","i","c","a","t",
     "i","o","n",":","*","*"," ","F","o","c","u","s"," ","o","n"," ","y","o","u","r"," ",
     "s","i","n","c","e","r","e"," ","e","f","f","o","r","t"," ","r","a","t","h","e","r",
     " ","t","h","a","n"," ","w","o","r","r","y","i","n","g"," ","a","b","o","u","t"," ",
     "o","u","t","c","o","m","e","s","."," ","E","v","e","r","y"," ","s","t","e","p"," ",
     "t","a","k","e","n"," ","w","i","t","h"," ","d","e","v","o","t","i","o","n"," ","a",
     "n","d"," ","w","i","s","d","o","m"," ","b","r","i","n","g","s"," ","y","o","u"," ",
     "c","l","o","s","e","r"," ","t","o"," ","p","e","a","c","e"," ","a","n","d"," ","f",
     "u","l","f","i","l","l","m","e","n","t",".">>
         IN  IF Len(verse_results) > 1 /\ verse_results[2].similarity > 7000
             THEN response \o <<"\n","\n","*","*","R","e","l","a","t","e","d"," ","T","e","a","c","h","i","n","g",":","*",
     "*"," ","\"">>
                  \o Prefix(verse_results[2].verse, 200) \o <<".",".",".","\"">>
             ELSE response

\* generate_gita_response(question_type, original_query) of server_semantic.py
generate_gita_response(question_type) ==
    LET known == {k \in DOMAIN SPIRITUAL_RESPONSES :
                     SPIRITUAL_RESPONSES[k].question_type = question_type}
    IN  IF known # {}
        THEN LET response_data == SPIRITUAL_RESPONSES[CHOOSE k \in known : TRUE]
             IN  <<"U+1F64F"," ","*","*","G","i","t","a"," ","W","i","s","d","o","m"," ","f","o","r"," ","Y",
     "o","u","r"," ","Q","u","e","s","t","i","o","n",":","*","*","\n","\n","*","*","V",
     "e","r","s","e",":","*","*"," ">>
                 \o response_data.verse \o <<"\n","\n","*","*","U","n","d","e","r","s","t","a","n","d","i","n","g",":","*","*"," ">>
                 \o response_data.explanation \o <<"\n","\n","*","*","P","r","a","c","t","i","c","a","l"," ","G","u","i","d","a","n","c","e",
     ":","*","*"," ">>
                 \o response_data.guidance
                 \o <<"\n","\n","R","e","m","e","m","b","e","r",","," ","t","h","e"," ","B","h","a","g","a","v",
     "a","d"," ","G","i","t","a"," ","i","s"," ","n","o","t"," ","j","u","s","t"," ","p",
     "h","i","l","o","s","o","p","h","y"," ","-"," ","i","t","'","s"," ","a"," ","p","r",
     "a","c","t","i","c","a","l"," ","g","u","i","d","e"," ","f","o","r"," ","l","i","v",
     "i","n","g","."," ","A","p","p","l","y"," ","t","h","e","s","e"," ","t","e","a","c",
     "h","i","n","g","s"," ","g","r","a","d","u","a","l","l","y"," ","i","n"," ","y","o",
     "u","r"," ","d","a","i","l","y"," ","l","i","f","e",".">>
        ELSE <<"U+1F64F"," ","T","h","e"," ","B","h","a","g","a","v","a","d"," ","G","i","t","a"," ","t",
     "e","a","c","h","e","s"," ","u","s"," ","t","h","a","t"," ","a","l","l"," ","s","u",
     "f","f","e","r","i","n","g"," ","c","o","m","e","s"," ","f","r","o","m"," ","i","g",
     "n","o","r","a","n","c","e"," ","o","f"," ","o","u","r"," ","t","r","u","e"," ","n",
     "a","t","u","r","e","."," ","Y","o","u"," ","a","r","e"," ","t","h","e"," ","e","t",
     "e","r","n","a","l"," ","s","o","u","l",","," ","b","e","y","o","n","d"," ","a","l",
     "l"," ","t","e","m","p","o","r","a","r","y"," ","d","i","f","f","i","c","u","l","t",
     "i","e","s","."," ","T","h","r","o","u","g","h"," ","r","i","g","h","t","e","o","u",
     "s"," ","a","c","t","i","o","n",","," ","d","e","v","o","t","i","o","n",","," ","a",
     "n","d"," ","s","e","l","f","-","k","n","o","w","l","e","d","g","e",","," ","y","o",
     "u"," ","c","a","n"," ","f","i","n","d"," ","l","a","s","t","i","n","g"," ","p","e",
     "a","c","e"," ","a","n","d"," ","f","u","l","f","i","l","l","m","e","n","t",".">>

\* get_fallback_verses(query): one verse picked at random
get_fallback_verses(pick) ==
    <<[verse |-> FAISS_FALLBACK_VERSES[pick], similarity |-> 5000,
       chapter_info |-> <<>>, rank |-> 1]>>

RECURSIVE VerseLoop(_, _, _)
\* the loop of find_relevant_verses from hit i on: iloc[idx] of a negative
\* idx counts from the end of the table
VerseLoop(hits, i, rows) ==
    IF i > Len(hits) THEN <<>>
    ELSE LET idx == hits[i].idx
             rest == VerseLoop(hits, i + 1, rows)
         IN  IF idx < Len(rows)
             THEN <<[verse |-> rows[IF idx >= 0 THEN idx + 1 ELSE Len(rows) + idx + 1],
                     similarity |-> hits[i].score,
                     chapter_info |-> <<>>, rank |-> i]>> \o rest
             ELSE rest

\* find_relevant_verses(query, top_k): the corpus table has the verse column
\* only, so chapter_info is empty
find_relevant_verses(index, model, data, rows, env) ==
    IF index = NoIndex \/ model = "None" \/ data = "None"
    THEN [results |-> get_fallback_verses(env.pick), calls |-> <<"find_relevant_verses">>,
          failed |-> {}]
    ELSE IF ~env.encode_ok
    THEN [results |-> get_fallback_verses(env.pick),
          calls |-> <<"find_relevant_verses", "encode">>, failed |-> {"encode"}]
    ELSE IF ~env.search_ok
    THEN [results |-> get_fallback_verses(env.pick),
          calls |-> <<"find_relevant_verses", "encode", "search">>, failed |-> {"search"}]
    ELSE IF \E i \in DOMAIN env.hits : env.hits[i].idx < -Len(rows)
    THEN [results |-> get_fallback_verses(env.pick),
          calls |-> <<"find_relevant_verses", "encode", "search">>, failed |-> {"iloc"}]
    ELSE [results |-> VerseLoop(env.hits, 1, rows),
          calls |-> <<"find_relevant_verses", "encode", "search">>, failed |-> {}]

LoadEnvs ==
    [whisper_ok : BOOLEAN, data_ok : BOOLEAN, embed_ok : BOOLEAN, index_ok : BOOLEAN,
     piper_load : TtsLoads]

\* load_models() of the two scripts: every load is inside its own try, so
\* the server starts with whatever could be loaded
LoadModels(env) ==
    /\ variant \in {"faiss", "semantic"}
    /\ phase = "startup"
    /\ phase' = "serving"
    /\ whisper_model' = IF env.whisper_ok THEN "loaded" ELSE "None"
    /\ df' = IF env.data_ok THEN "loaded" ELSE "None"
    /\ texts' = IF env.data_ok THEN Corpus ELSE <<>>
    /\ piper_voice' = IF HAS_PIPER /\ env.piper_load = "ok" THEN "loaded" ELSE "None"
    /\ IF variant = "faiss"
       THEN /\ embedder' = IF env.embed_ok THEN "loaded" ELSE "None"
            /\ IF env.embed_ok /\ env.data_ok /\ env.index_ok
               THEN /\ faiss_index' =
                          [ntotal |-> IF index_file >= 0 THEN index_file ELSE Len(Corpus)]
                    /\ index_file' = IF index_file >= 0 THEN index_file ELSE Len(Corpus)
               ELSE /\ faiss_index' = NoIndex
                    /\ UNCHANGED index_file
       ELSE UNCHANGED <<embedder, faiss_index, index_file>>
    /\ UNCHANGED <<variant, HAS_OLLAMA, HAS_PIPER, cleanVars, promptVars, retrieveVars,
                   clientVars, su, requestVars>>

\* process_audio of the two scripts up to the transcription: no audio is an
\* input error, an odd byte is dropped
ReceiveSemantic(n) ==
    /\ variant \in {"faiss", "semantic"}
    /\ phase = "serving"
    /\ pc \in {"idle", "done"}
    /\ nreq < MaxRequests
    /\ nreq' = nreq + 1
    /\ audio_bytes' = IF n % 2 # 0 THEN n - 1 ELSE n
    /\ transcribed_text' = <<>> /\ retrieved' = <<>>
    /\ response_text_raw' = <<>> /\ response_text' = <<>> /\ tts_text' = <<>>
    /\ calls' = <<>> /\ failed' = {}
    /\ IF n = 0
       THEN pc' = "done" /\ resp' = ErrorResp(400, "no_audio")
       ELSE pc' = "transcribe" /\ resp' = NoResp
    /\ UNCHANGED <<cleanVars, promptVars, retrieveVars, clientVars, su, processVars>>

\* whisper_model.transcribe(audio_float); a missing model or a failing
\* transcription reaches the except clause
TranscribeSemantic(ok, t) ==
    /\ variant \in {"faiss", "semantic"}
    /\ pc = "transcribe"
    /\ IF whisper_model = "None"
       THEN /\ pc' = "done"
            /\ resp' = ErrorResp(500, "unhandled")
            /\ UNCHANGED <<calls, failed, transcribed_text>>
       ELSE /\ calls' = Append(calls, "transcribe_direct")
            /\ IF ok
               THEN /\ transcribed_text' = Strip(t)
                    /\ pc' = "answer"
                    /\ UNCHANGED <<failed, resp>>
               ELSE /\ failed' = failed \cup {"transcribe_direct"}
                    /\ pc' = "done"
                    /\ resp' = ErrorResp(500, "unhandled")
                    /\ UNCHANGED transcribed_text
    /\ UNCHANGED <<nreq, audio_bytes, retrieved, response_text_raw, response_text, tts_text,
                   cleanVars, promptVars, retrieveVars, clientVars, su, processVars>>

VerseEnvs ==
    [encode_ok : BOOLEAN, search_ok : BOOLEAN, pick : DOMAIN FAISS_FALLBACK_VERSES,
     hits : IF faiss_index = NoIndex THEN {<<>>}
            ELSE SearchResults(faiss_index.ntotal, VERSE_TOP_K)]

\* server_faiss_semantic.py: the exit check, then either the farewell or
\* intent, verses, response and a follow-up phrase picked at random
AnswerFaiss(env, follow_up) ==
    /\ variant = "faiss"
    /\ pc = "answer"
    /\ IF EndConversation(transcribed_text)
       THEN /\ response_text' = FAREWELL
            /\ resp' = [NoResp EXCEPT !.end_conversation = "true", !.intent = "goodbye"]
            /\ UNCHANGED <<retrieved, calls, failed>>
       ELSE LET primary_intent == understand_question_intent(transcribed_text)
                v == find_relevant_verses(faiss_index, embedder, df, texts, env)
            IN  /\ retrieved' = v.results
                /\ response_text' =
                       generate_contextual_response(v.results, primary_intent)
                       \o <<"\n","\n">> \o FAISS_FOLLOW_UP[follow_up]
                /\ calls' = calls \o <<"understand_question_intent">> \o v.calls
                                  \o <<"generate_contextual_response">>
                /\ failed' = failed \cup v.failed
                /\ resp' = [NoResp EXCEPT !.end_conversation = "false",
                                          !.intent = primary_intent]
    /\ pc' = "synthesize"
    /\ UNCHANGED <<nreq, audio_bytes, transcribed_text, response_text_raw, tts_text,
                   cleanVars, promptVars, retrieveVars, clientVars, su, processVars>>

\* server_semantic.py: the exit check, then either the farewell or question
\* type, curated response and a follow-up phrase picked at random
AnswerSemantic(follow_up) ==
    /\ variant = "semantic"
    /\ pc = "answer"
    /\ IF EndConversation(transcribed_text)
       THEN /\ response_text' = FAREWELL
            /\ resp' = [NoResp EXCEPT !.end_conversation = "true", !.intent = "goodbye"]
            /\ UNCHANGED <<calls>>
       ELSE LET question_type == understand_question(transcribed_text)
            IN  /\ response_text' =
                       generate_gita_response(question_type)
                       \o <<"\n","\n">> \o SEM_FOLLOW_UP[follow_up]
                /\ calls' = calls \o <<"understand_question", "generate_gita_response">>
                /\ resp' = [NoResp EXCEPT !.end_conversation = "false",
                                          !.intent = question_type]
    /\ pc' = "synthesize"
    /\ UNCHANGED <<nreq, audio_bytes, transcribed_text, retrieved, response_text_raw,
                   tts_text, failed, cleanVars, promptVars, retrieveVars, clientVars, su, processVars>>

\* synthesize_speech(response_text) and the response: no voice gives no
\* audio, and so does a failing synthesis
SynthesizeSemantic(outcome) ==
    /\ variant \in {"faiss", "semantic"}
    /\ pc = "synthesize"
    /\ tts_text' = response_text
    /\ LET audio_bytes_out ==
               IF piper_voice = "None" \/ outcome = "raise" THEN "null"
               ELSE IF outcome = "empty" THEN "empty" ELSE "piper"
       IN  /\ calls' = calls \o <<"synthesize_speech">>
                             \o (IF piper_voice = "None" THEN <<>> ELSE <<"piper">>)
           /\ failed' = failed \cup
                           (IF piper_voice # "None" /\ outcome = "raise" THEN {"piper"} ELSE {})
           /\ resp' = [resp EXCEPT !.status = 200,
                                   !.transcription = transcribed_text,
                                   !.response = response_text,
                                   !.audio = AudioField(audio_bytes_out)]
    /\ pc' = "done"
    /\ UNCHANGED <<nreq, audio_bytes, transcribed_text, retrieved, response_text_raw,
                   response_text, cleanVars, promptVars, retrieveVars, clientVars, su, processVars>>

(***************************************************************************)
(* A process running server.py                                             *)
(***************************************************************************)
InitServer ==
    /\ variant = "server"
    /\ HAS_OLLAMA \in BOOLEAN
    /\ HAS_PIPER \in BOOLEAN
    /\ index_file \in IndexFiles
    /\ Imported
    /\ RequestIdle /\ CleanIdle /\ PromptIdle /\ RetrieveIdle /\ ClientIdle
    /\ StartupIdle

NextServer ==
    \/ \E env \in InitEnvs : InitializeModels(env)
    \/ ServeUninitialized
    \/ Health
    \/ \E n \in 0..MaxAudioBytes : Receive(n)
    \/ \E ok \in BOOLEAN, t \in TranscriptTexts : TranscribeDirect(ok, t)
    \/ \E ok \in BOOLEAN, t \in TranscriptTexts : TranscribeFile(ok, t)
    \/ \E env \in RetrieveEnvs : Retrieve(env)
    \/ \E env \in GenerateEnvs : Generate(env)
    \/ \E env \in TtsEnvs : Synthesize(env)

SpecServer == InitServer /\ [][NextServer]_vars

(***************************************************************************)
(* Properties of a turn of server.py (SpecServer)                          *)
(***************************************************************************)
\* C3: when both generation backends fail (Ollama absent or raising, the
\* transformers pipeline raising) the turn still completes: the raw and the
\* cleaned response are the apology, the response is sent with status 200 and
\* carries the apology in response and response_raw, and synthesis was
\* attempted on that text
C3_ApologyWhenBothBackendsFail ==
    (/\ variant = "server"
     /\ "transformers" \in failed
     /\ HAS_OLLAMA => "ollama" \in failed)
    => /\ pc \in {"synthesize", "done"}
       /\ response_text_raw = APOLOGY
       /\ response_text = APOLOGY
       /\ pc = "done" =>
             /\ resp.status = 200
             /\ resp.response = APOLOGY
             /\ resp.response_raw = APOLOGY
             /\ "generate_tts_audio" \in Range(calls)
             /\ tts_text = APOLOGY

\* a turn answered with status 200 after Ollama and then transformers raised
C3_Witness ==
    /\ variant = "server"
    /\ pc = "done"
    /\ HAS_OLLAMA
    /\ {"ollama", "transformers"} \subseteq failed
    /\ resp.status = 200
    /\ "generate_tts_audio" \in Range(calls)

\* C25: safe_generate calls generate_with_ollama first, and only when Ollama
\* was imported; it calls generate_with_transformers only when Ollama was not
\* imported or raised; the text of the first backend that returns is the
\* result, the apology when none does; and it returns, so that the turn goes
\* on to synthesis whatever the backends did
C25_BackendsInOrderFirstSuccessWins ==
    [][\A env \in GenerateEnvs :
          Generate(env) =>
              LET backends == SubSeq(calls', Len(calls) + 2, Len(calls') - 1)
                  first == HAS_OLLAMA /\ env.ollama_ok
              IN  /\ backends \in {<<"ollama">>, <<"transformers">>,
                                   <<"ollama", "transformers">>}
                  /\ "ollama" \in Range(backends) <=> HAS_OLLAMA
                  /\ "transformers" \in Range(backends) <=> ~first
                  /\ first => response_text_raw' = env.ollama_text
                  /\ (~first /\ env.transformers_ok)
                         => response_text_raw' = env.transformers_text
                  /\ (~first /\ ~env.transformers_ok) => response_text_raw' = APOLOGY
                  /\ failed' \ failed
                         = (IF HAS_OLLAMA /\ ~env.ollama_ok THEN {"ollama"} ELSE {})
                           \cup (IF ~first /\ ~env.transformers_ok
                                 THEN {"transformers"} ELSE {})
                  /\ pc' = "synthesize"]_vars

\* Ollama answered, the transformers pipeline was not run, and the turn went on
C25_Witness ==
    /\ variant = "server"
    /\ pc = "synthesize"
    /\ HAS_OLLAMA
    /\ "ollama" \in Range(calls)
    /\ "transformers" \notin Range(calls)
    /\ failed = {}
    /\ response_text_raw # <<>>

\* C4 as claimed: in process_audio of server.py a transcription containing a
\* closing phrase (case-insensitive substring) makes the turn skip retrieval,
\* prompt composition and generation and answer with the farewell text,
\* which is what synthesis is given
C4_ExitSkipsPipeline ==
    (variant = "server" /\ EndConversation(transcribed_text))
    => /\ Range(calls) \cap {"retrieve", "make_prompt", "safe_generate"} = {}
       /\ (pc = "done" /\ resp.status = 200) =>
             /\ resp.response = FAREWELL
             /\ tts_text = FAREWELL

\* C6 as claimed: a request with no audio bytes is answered with status 400
\* and runs no stage, whether or not the models are loaded
C6_NoAudioIs400 ==
    (variant = "server" /\ nreq > 0 /\ pc = "done" /\ audio_bytes = 0)
    => /\ resp.status = 400
       /\ calls = <<>>

\* C6 as amended: a request with no audio bytes runs no transcription,
\* retrieval, generation or synthesis; it is answered with the input error
\* (status 400) when the speech model is loaded and with the models-not-loaded
\* error (status 503) when it is not
C6_NoAudioRunsNothing ==
    [][(variant = "server" /\ nreq' = nreq + 1 /\ audio_bytes' = 0)
       => /\ pc' = "done"
          /\ calls' = <<>>
          /\ failed' = {}
          /\ resp'.transcription = <<>> /\ resp'.response = <<>> /\ resp'.audio = "null"
          /\ IF whisper_model = "None"
             THEN resp'.status = 503 /\ resp'.error = "models_not_loaded"
             ELSE resp'.status = 400 /\ resp'.error = "no_audio"]_vars

\* a request with no audio bytes answered with status 503
C6_Witness ==
    /\ variant = "server"
    /\ nreq > 0 /\ pc = "done" /\ audio_bytes = 0
    /\ resp.status = 503
    /\ calls = <<>>

\* C7: a request carrying audio that arrives while the models are not loaded
\* is answered with status 503 (models not loaded), invokes no stage and
\* leaves the state of the process as it was; a request that arrives after
\* such an answer, the models having been loaded meanwhile, is taken up by
\* the transcription (or refused for its own malformed audio)
C7_NotLoadedAbortsRequestOnly ==
    [][(variant = "server" /\ nreq' = nreq + 1 /\ audio_bytes' > 0)
       => IF whisper_model = "None"
          THEN /\ resp'.status = 503 /\ resp'.error = "models_not_loaded"
               /\ pc' = "done"
               /\ calls' = <<>> /\ failed' = {}
               /\ UNCHANGED processVars
          ELSE /\ resp'.status # 503
               /\ IF audio_bytes' % 2 = 0
                  THEN pc' = "transcribe" /\ resp' = NoResp
                  ELSE pc' = "done" /\ resp'.status = 400]_vars

\* a request with audio was answered with status 503, the models have been
\* loaded since, and the server can take a further request
C7_Witness ==
    /\ variant = "server"
    /\ pc = "done" /\ audio_bytes > 0
    /\ resp.status = 503 /\ calls = <<>>
    /\ phase = "serving" /\ whisper_model = "loaded"
    /\ nreq < MaxRequests

\* C8 as claimed: process_audio answers with a status other than 200 only
\* for missing or malformed audio and for models that are not loaded; every
\* request that reached the transcription is answered with status 200
C8_OnlyInputAndModelErrors ==
    (variant = "server" /\ nreq > 0 /\ pc = "done")
    => /\ resp.status # 200 =>
             resp.error \in {"no_audio", "parse_failed", "models_not_loaded"}
       /\ "transcribe_direct" \in Range(calls) => resp.status = 200

\* C8 as amended: a status other than 200 is 400 for missing or malformed
\* audio, 503 for models that are not loaded, and 500 when both transcription
\* paths failed or when the retrieval (the encoder or the index search)
\* raised; a request that reached the transcription, had one transcription
\* path succeed and had no exception in the retrieval is answered with
\* status 200, whichever generation or synthesis backend failed
C8_NonSuccessCauses ==
    (variant = "server" /\ nreq > 0 /\ pc = "done")
    => /\ resp.status \in {200, 400, 500, 503}
       /\ resp.status = 400 =>
             /\ resp.error \in {"no_audio", "parse_failed"}
             /\ audio_bytes = 0 \/ audio_bytes % 2 = 1
             /\ calls = <<>>
       /\ resp.status = 503 =>
             /\ resp.error = "models_not_loaded"
             /\ calls = <<>>
       /\ resp.status = 500 =>
             /\ \/ {"transcribe_direct", "transcribe_file"} \subseteq failed
                \/ failed \cap {"encode", "search"} # {}
             /\ Range(calls) \cap {"safe_generate", "generate_tts_audio"} = {}
       /\ (/\ "transcribe_direct" \in Range(calls)
           /\ failed \cap {"transcribe_file", "encode", "search"} = {})
          => resp.status = 200

\* a turn answered with status 200 although a generation backend and every
\* synthesis backend tried raised
C8_Witness ==
    /\ variant = "server"
    /\ pc = "done"
    /\ resp.status = 200
    /\ "transformers" \in failed
    /\ {"pyttsx3", "sapi"} \subseteq failed

\* C9: within a turn the file-based transcription is attempted only after
\* the direct transcription has failed, and at most once; after its success
\* the turn is where a direct success leaves it (the stripped text, nothing
\* else of the request set); after its failure the turn ends with an error
\* response and no retrieval, generation or synthesis
C9_FileTranscriptionFallback ==
    variant = "server"
    => /\ "transcribe_file" \in Range(calls) =>
             /\ "transcribe_direct" \in failed
             /\ Len(calls) >= 2
             /\ calls[1] = "transcribe_direct" /\ calls[2] = "transcribe_file"
             /\ Cardinality({i \in DOMAIN calls : calls[i] = "transcribe_file"}) = 1
       /\ "transcribe_file" \in failed =>
             /\ pc = "done"
             /\ resp.status = 500 /\ resp.error = "transcription_failed"
             /\ calls = <<"transcribe_direct", "transcribe_file">>
       /\ pc = "retrieve" =>
             /\ transcribed_text \in {Strip(t) : t \in TranscriptTexts}
             /\ resp = NoResp
             /\ retrieved = <<>> /\ response_text_raw = <<>>
             /\ response_text = <<>> /\ tts_text = <<>>
             /\ failed \subseteq {"transcribe_direct"}

\* a turn answered with status 200 whose text came from the file-based
\* transcription
C9_Witness ==
    /\ variant = "server"
    /\ pc = "done"
    /\ resp.status = 200
    /\ "transcribe_file" \in Range(calls)
    /\ resp.transcription # <<>>

\* C10: when Piper, pyttsx3 and SAPI all fail or are unavailable,
\* generate_tts_audio returns no audio without raising, and the turn is
\* answered with status 200, audio null, and the transcription, response,
\* response_raw and formatted_response that the stages before the synthesis
\* produced
C10_NoAudioStillSucceeds ==
    (/\ variant = "server"
     /\ "generate_tts_audio" \in Range(calls)
     /\ {"pyttsx3", "sapi"} \subseteq failed
     /\ HAS_PIPER => "piper" \in failed)
    => /\ "generate_tts_audio" \notin failed
       /\ pc = "done"
       /\ resp.status = 200
       /\ resp.audio = "null"
       /\ resp.transcription = transcribed_text
       /\ resp.response_raw = response_text_raw
       /\ resp.response = clean_response_text(response_text_raw)
       /\ resp.formatted_response = FormattedResponse(resp.response, retrieved)

\* a turn on which Piper, pyttsx3 and SAPI were all tried and all failed
C10_Witness ==
    /\ variant = "server"
    /\ pc = "done"
    /\ HAS_PIPER
    /\ "sapi" \in Range(calls)
    /\ {"piper", "pyttsx3", "sapi"} \subseteq failed
    /\ resp.status = 200 /\ resp.audio = "null"
    /\ resp.response # <<>>

\* C13 as claimed: once server.py has initialized its models, the index
\* having been built or read from its cache file, the index holds as many
\* vectors as there are passage texts
C13_IndexMatchesCorpus ==
    (variant = "server" /\ phase = "serving" /\ whisper_model = "loaded")
    => faiss_index.ntotal = Len(texts)

C19_HealthReportsModelsLoaded ==
    /\ []((variant = "server" /\ phase = "serving") =>
             /\ ENABLED Health
             /\ health_response(whisper_model).status = 200
             /\ health_response(whisper_model).models_loaded = (whisper_model = "loaded"))
    /\ [][(variant = "server" /\ nreq' = nreq + 1) =>
             ((resp'.status # 503) = health_response(whisper_model).models_loaded)]_vars

\* process_audio has answered 503 in a serving process whose speech model is
\* not loaded, the state in which /health answers models_loaded false
C19_Witness ==
    /\ variant = "server"
    /\ phase = "serving" /\ whisper_model = "None"
    /\ ENABLED Health
    /\ ~health_response(whisper_model).models_loaded
    /\ pc = "done" /\ resp.status = 503

(***************************************************************************)
(* A process running server_faiss_semantic.py or server_semantic.py        *)
(***************************************************************************)
InitSemantic ==
    /\ variant \in {"faiss", "semantic"}
    /\ HAS_OLLAMA = FALSE
    /\ HAS_PIPER \in BOOLEAN
    /\ index_file \in IndexFiles
    /\ Imported
    /\ RequestIdle /\ CleanIdle /\ PromptIdle /\ RetrieveIdle /\ ClientIdle
    /\ StartupIdle

NextSemantic ==
    \/ \E env \in LoadEnvs : LoadModels(env)
    \/ ServeUninitialized
    \/ \E n \in 0..MaxAudioBytes : ReceiveSemantic(n)
    \/ \E ok \in BOOLEAN, t \in TranscriptTexts : TranscribeSemantic(ok, t)
    \/ \E env \in VerseEnvs, f \in DOMAIN FAISS_FOLLOW_UP : AnswerFaiss(env, f)
    \/ \E f \in DOMAIN SEM_FOLLOW_UP : AnswerSemantic(f)
    \/ \E outcome \in TtsOutcomes \cup {"empty"} : SynthesizeSemantic(outcome)

SpecSemantic == InitSemantic /\ [][NextSemantic]_vars

(***************************************************************************)
(* Properties of a turn of the two semantic servers (SpecSemantic)         *)
(***************************************************************************)
\* C5: in process_audio of server_faiss_semantic.py and server_semantic.py,
\* when the lower-cased transcription contains an entry of EXIT_PHRASES the
\* handler invokes neither intent detection, verse retrieval nor response
\* generation, answers with the farewell text, which is what synthesis is
\* given, and reports end_conversation true; when it contains none,
\* end_conversation is false and the response was generated
C5_ExitPhraseEndsConversation ==
    (variant \in {"faiss", "semantic"} /\ pc \in {"synthesize", "done"} /\ resp.error = "")
    => LET lowered == LowerStr(transcribed_text)
           exit == \E k \in DOMAIN EXIT_PHRASES : Contains(lowered, EXIT_PHRASES[k])
           generation == {"understand_question_intent", "understand_question",
                          "find_relevant_verses", "generate_contextual_response",
                          "generate_gita_response"}
       IN  IF exit
           THEN /\ Range(calls) \cap generation = {}
                /\ response_text = FAREWELL
                /\ resp.end_conversation = "true"
                /\ pc = "done" =>
                      /\ resp.status = 200
                      /\ resp.response = FAREWELL
                      /\ "synthesize_speech" \in Range(calls)
                      /\ tts_text = FAREWELL
           ELSE /\ resp.end_conversation = "false"
                /\ Range(calls) \cap {"generate_contextual_response",
                                      "generate_gita_response"} # {}
                /\ response_text # FAREWELL
                /\ pc = "done" => resp.status = 200 /\ resp.response = response_text

\* a turn whose transcription holds "Thank You" in capitals and which was
\* answered with the farewell and end_conversation true
C5_Witness ==
    /\ variant \in {"faiss", "semantic"}
    /\ pc = "done"
    /\ Contains(transcribed_text, <<"T", "h", "a", "n", "k", " ", "Y", "o", "u">>)
    /\ resp.status = 200
    /\ resp.end_conversation = "true"
    /\ resp.response = FAREWELL

(***************************************************************************)
(* client.py: the jaw controller, its animation threads and the loop       *)
(***************************************************************************)
\* f"{command.upper()}\n".encode(), the bytes send_jaw_command writes
CommandStr(command) ==
    LET upper == CASE command = "o" -> "O"
                   [] command = "c" -> "C"
                   [] OTHER -> command
    IN  <<upper, "\n">>

\* b'c', the byte init_arduino and cleanup write
CloseByte == <<"c">>

\* the ports init_arduino walks through, and what each does: Serial() or a
\* flush raises, the three test writes all raise, or a test write goes
\* through; <<>> stands for find_arduino_ports raising, which only the outer
\* handler catches
PortLists == UNION {[1..n -> {"no_open", "test_failed", "ok"}] : n \in 0..MaxPorts}

\* init_arduino on the controller ctl = [arduino, is_connected, link, delivered], from
\* the k-th port of ports_to_try on
RECURSIVE init_arduino(_, _, _)
init_arduino(ctl, ports, k) ==
    IF k > Len(ports) THEN [ctl EXCEPT !.is_connected = FALSE]
    ELSE IF ports[k] = "no_open"
         THEN init_arduino([ctl EXCEPT !.arduino = "None"], ports, k + 1)
    ELSE LET tested == [ctl EXCEPT !.arduino = "open", !.link = @ \cup {CloseByte}]
         IN  IF ports[k] = "ok"
             THEN [tested EXCEPT !.is_connected = TRUE, !.delivered.last = CloseByte]
             ELSE init_arduino([tested EXCEPT !.delivered.failed = TRUE], ports, k + 1)

SendOutcomes == {"ok", "timeout", "serial_error", "error"}

Reconnects_mut(outcome) == outcome # "ok"

\* the handler of send_jaw_command that calls reconnect_arduino
Reconnects(outcome) == outcome = "serial_error"

\* send_jaw_command up to its return, or to reconnect_arduino closing the port
send_begin(ctl, command, outcome) ==
    IF ctl.arduino # "open"
    THEN [ctl |-> ctl,
          sent |-> [outcome |-> "not_open", writes |-> 0, reconnects |-> 0,
                    result |-> "False"]]
    ELSE LET written == [ctl EXCEPT !.link = @ \cup {CommandStr(command)}]
             wrote == IF outcome = "ok"
                      THEN [written EXCEPT !.delivered.last = CommandStr(command)]
                      ELSE [written EXCEPT !.delivered.failed = TRUE]
         IN  IF outcome = "ok"
             THEN [ctl |-> wrote,
                   sent |-> [outcome |-> outcome, writes |-> 1, reconnects |-> 0,
                             result |-> "True"]]
             ELSE IF Reconnects(outcome)
             THEN [ctl |-> [wrote EXCEPT !.arduino = "closed"],
                   sent |-> [outcome |-> outcome, writes |-> 1, reconnects |-> 1,
                             result |-> "False"]]
             ELSE [ctl |-> wrote,
                   sent |-> [outcome |-> outcome, writes |-> 1, reconnects |-> 0,
                             result |-> "False"]]

\* send_jaw_command as the foreground thread runs it, the reconnect included
send_jaw_command(ctl, command, outcome, ports) ==
    LET b == send_begin(ctl, command, outcome)
    IN  IF b.sent.reconnects = 1
        THEN [ctl |-> init_arduino(b.ctl, ports, 1), sent |-> b.sent]
        ELSE b

join_returns_mut(alive, timed_out) == ~alive

\* self.jaw_thread.join(timeout=1.0)
join_returns(alive, timed_out) == ~alive \/ timed_out

Controller ==
    [arduino |-> arduino, is_connected |-> is_connected, link |-> link,
     delivered |-> delivered]

SetController(ctl) ==
    /\ arduino' = ctl.arduino
    /\ is_connected' = ctl.is_connected
    /\ link' = ctl.link
    /\ delivered' = ctl.delivered

\* self.jaw_thread and self.jaw_thread.is_alive()
Alive(t) == t # 0 /\ threads[t].pc \notin {"unstarted", "dead"}

\* ArduinoJawController.__init__ inside GitaGPTHumanoidRobot.__init__
Construct(has_serial, ports) ==
    /\ fg.pc = "construct"
    /\ SetController(IF has_serial THEN init_arduino(Controller, ports, 1) ELSE Controller)
    /\ fg' = [fg EXCEPT !.pc = "run"]
    /\ UNCHANGED <<last_sent, jaw_moving, jaw_thread, threads, current_jaw_state, playbacks,
                   nonClientVars>>

\* run, up to its first prompt
RunStart(healthy, outcome, ports) ==
    /\ fg.pc = "run"
    /\ IF ~healthy
       THEN /\ fg' = [fg EXCEPT !.pc = "exited"]
            /\ UNCHANGED <<arduino, is_connected, link, delivered, last_sent>>
       ELSE IF is_connected
       THEN LET s == send_jaw_command(Controller, "c", outcome, ports)
            IN  /\ SetController(s.ctl)
                /\ last_sent' = s.sent
                /\ fg' = [fg EXCEPT !.pc = "prompt"]
       ELSE /\ fg' = [fg EXCEPT !.pc = "prompt"]
            /\ UNCHANGED <<arduino, is_connected, link, delivered, last_sent>>
    /\ UNCHANGED <<jaw_moving, jaw_thread, threads, current_jaw_state, playbacks,
                   nonClientVars>>

\* the user types quit, exit or q
Quit ==
    /\ fg.pc = "prompt"
    /\ fg' = [fg EXCEPT !.pc = "cleanup"]
    /\ UNCHANGED <<arduino, is_connected, link, delivered, last_sent, jaw_moving, jaw_thread,
                   threads, current_jaw_state, playbacks, nonClientVars>>

\* KeyboardInterrupt, which no handler below run catches
Interrupt ==
    /\ fg.pc \in {"prompt", "playing", "join"}
    /\ fg' = [fg EXCEPT !.pc = "cleanup"]
    /\ UNCHANGED <<arduino, is_connected, link, delivered, last_sent, jaw_moving, jaw_thread,
                   threads, current_jaw_state, playbacks, nonClientVars>>

TestCommands == <<"c", "o", "c", "o", "c">>

\* the loop of test_arduino_connection from command k on: n_ok commands go
\* through, the next one fails with fail_outcome
RECURSIVE test_arduino_connection(_, _, _, _, _)
test_arduino_connection(st, k, n_ok, fail_outcome, ports) ==
    IF k > Len(TestCommands) THEN st
    ELSE LET s == send_jaw_command(st.ctl, TestCommands[k],
                                   IF k <= n_ok THEN "ok" ELSE fail_outcome, ports)
         IN  IF s.sent.result = "True"
             THEN test_arduino_connection(s, k + 1, n_ok, fail_outcome, ports)
             ELSE s

\* the user types test
TestJaw(n_ok, fail_outcome, ports) ==
    /\ fg.pc = "prompt"
    /\ is_connected
    /\ LET s == test_arduino_connection([ctl |-> Controller, sent |-> last_sent], 1, n_ok,
                                        fail_outcome, ports)
       IN  /\ SetController(s.ctl)
           /\ last_sent' = s.sent
    /\ UNCHANGED <<jaw_moving, jaw_thread, threads, current_jaw_state, playbacks, fg,
                   nonClientVars>>

\* stop_speaking, as far as the join
StopSpeaking ==
    IF jaw_moving
    THEN /\ jaw_moving' = FALSE
         /\ fg' = IF Alive(jaw_thread)
                  THEN [fg EXCEPT !.pc = "join", !.stopped = "none"]
                  ELSE [fg EXCEPT !.pc = "prompt", !.stopped = "returned"]
    ELSE /\ fg' = [fg EXCEPT !.pc = "prompt", !.stopped = "returned"]
         /\ UNCHANGED jaw_moving

\* the user presses ENTER: process_question, into play_audio_with_jaw as far
\* as the playback
ProcessQuestion(outcome) ==
    /\ fg.pc = "prompt"
    /\ playbacks < MaxPlaybacks
    /\ playbacks' = IF outcome \in {"bad_audio", "audio"} THEN playbacks + 1 ELSE playbacks
    /\ CASE outcome \in {"not_recorded", "server_error", "no_audio"} ->
              UNCHANGED <<fg, jaw_moving, jaw_thread, threads>>
         [] outcome = "bad_audio" ->
              /\ IF is_connected THEN StopSpeaking
                 ELSE /\ fg' = [fg EXCEPT !.stopped = "none"]
                      /\ UNCHANGED jaw_moving
              /\ UNCHANGED <<jaw_thread, threads>>
         [] outcome = "audio" ->
              /\ fg' = [fg EXCEPT !.pc = "playing", !.stopped = "none"]
              /\ IF is_connected /\ ~jaw_moving
                 THEN LET t == CHOOSE u \in 1..MaxPlaybacks :
                                   /\ threads[u].pc = "unstarted"
                                   /\ \A v \in 1..(u - 1) : threads[v].pc # "unstarted"
                      IN  /\ jaw_moving' = TRUE
                          /\ jaw_thread' = t
                          /\ threads' = [threads EXCEPT ![t].pc = "poll"]
                 ELSE UNCHANGED <<jaw_moving, jaw_thread, threads>>
    /\ UNCHANGED <<arduino, is_connected, link, delivered, last_sent, current_jaw_state,
                   nonClientVars>>

\* the playback returns (played, or every method failed) or raises
PlayEnd(outcome) ==
    /\ fg.pc = "playing"
    /\ outcome \in {"played", "not_played", "exception"}
    /\ IF is_connected THEN StopSpeaking
       ELSE /\ fg' = [fg EXCEPT !.pc = "prompt", !.stopped = "none"]
            /\ UNCHANGED jaw_moving
    /\ UNCHANGED <<arduino, is_connected, link, delivered, last_sent, jaw_thread, threads,
                   current_jaw_state, playbacks, nonClientVars>>

\* the join of stop_speaking returns
JoinReturn(timed_out) ==
    /\ fg.pc = "join"
    /\ join_returns(Alive(jaw_thread), timed_out)
    /\ fg' = [fg EXCEPT !.pc = "prompt",
                        !.stopped = IF Alive(jaw_thread) THEN "timeout" ELSE "returned"]
    /\ UNCHANGED <<arduino, is_connected, link, delivered, last_sent, jaw_moving, jaw_thread,
                   threads, current_jaw_state, playbacks, nonClientVars>>

\* cleanup, in the finally of run; the process ends and its daemon threads with it
Cleanup(ok) ==
    /\ fg.pc = "cleanup"
    /\ jaw_moving' = FALSE
    /\ IF arduino = "open"
       THEN /\ link' = link \cup {CloseByte}
            /\ delivered' = IF ok THEN [delivered EXCEPT !.last = CloseByte]
                            ELSE [delivered EXCEPT !.failed = TRUE]
            /\ arduino' = IF ok THEN "closed" ELSE arduino
       ELSE UNCHANGED <<arduino, link, delivered>>
    /\ fg' = [fg EXCEPT !.pc = "exited"]
    /\ threads' = [t \in 1..MaxPlaybacks |->
                      IF threads[t].pc = "unstarted" THEN NoThread
                      ELSE [NoThread EXCEPT !.pc = "dead"]]
    /\ UNCHANGED <<is_connected, last_sent, jaw_thread, current_jaw_state, playbacks,
                   nonClientVars>>

\* cycle_position < 3, < 6, else: the command and the _current_jaw_state
Segments == <<[cmd |-> "O", state |-> "open"], [cmd |-> "C", state |-> "closed"],
              [cmd |-> "O", state |-> "open_again"]>>

\* move_jaw_simple leaving its loop without the closing commands
JawPoll_mut(t, seg) ==
    /\ threads[t].pc = "poll"
    /\ IF jaw_moving
       THEN /\ IF current_jaw_state # Segments[seg].state
               THEN threads' = [threads EXCEPT ![t].pc = "send", ![t].target = seg]
               ELSE UNCHANGED threads
            /\ UNCHANGED current_jaw_state
       ELSE /\ threads' = [threads EXCEPT ![t] = [NoThread EXCEPT !.pc = "dead"]]
            /\ current_jaw_state' = "unset"
    /\ UNCHANGED <<arduino, is_connected, link, delivered, last_sent, jaw_moving, jaw_thread,
                   playbacks, fg, nonClientVars>>

\* move_jaw_simple: one test of the flag, with the clock in segment seg
JawPoll(t, seg) ==
    /\ threads[t].pc = "poll"
    /\ IF jaw_moving
       THEN IF current_jaw_state # Segments[seg].state
            THEN threads' = [threads EXCEPT ![t].pc = "send", ![t].target = seg]
            ELSE UNCHANGED threads
       ELSE threads' = [threads EXCEPT ![t].pc = "send", ![t].attempt = 1]
    /\ UNCHANGED <<arduino, is_connected, link, delivered, last_sent, jaw_moving, jaw_thread,
                   current_jaw_state, playbacks, fg, nonClientVars>>

\* what move_jaw_simple does when send_jaw_command has returned result
AfterSend(t, result) ==
    IF threads[t].attempt = 0
    THEN /\ threads' = [threads EXCEPT ![t].pc = "poll", ![t].target = 0]
         /\ current_jaw_state' = Segments[threads[t].target].state
    ELSE IF result = "True" \/ threads[t].attempt >= CloseAttempts
    THEN /\ threads' = [threads EXCEPT ![t] = [NoThread EXCEPT !.pc = "dead"]]
         /\ current_jaw_state' = "unset"
    ELSE /\ threads' = [threads EXCEPT ![t].pc = "send", ![t].attempt = @ + 1]
         /\ UNCHANGED current_jaw_state

\* the jaw thread in send_jaw_command
JawSend(t, outcome) ==
    /\ threads[t].pc = "send"
    /\ LET command == IF threads[t].attempt = 0 THEN Segments[threads[t].target].cmd
                       ELSE "C"
           b == send_begin(Controller, command, outcome)
       IN  /\ SetController(b.ctl)
           /\ last_sent' = b.sent
           /\ IF b.sent.reconnects = 1
              THEN /\ threads' = [threads EXCEPT ![t].pc = "reconnect"]
                   /\ UNCHANGED current_jaw_state
              ELSE AfterSend(t, b.sent.result)
    /\ UNCHANGED <<jaw_moving, jaw_thread, playbacks, fg, nonClientVars>>

\* the jaw thread in reconnect_arduino: init_arduino returns
JawReconnect(t, ports) ==
    /\ threads[t].pc = "reconnect"
    /\ SetController(init_arduino(Controller, ports, 1))
    /\ AfterSend(t, "False")
    /\ UNCHANGED <<last_sent, jaw_moving, jaw_thread, playbacks, fg, nonClientVars>>

InitClient ==
    /\ ClientIdle /\ StartupIdle
    /\ CleanIdle /\ PromptIdle /\ RetrieveIdle /\ ProcessIdle /\ RequestIdle

NextClient ==
    \/ \E has_serial \in BOOLEAN, ports \in PortLists : Construct(has_serial, ports)
    \/ \E healthy \in BOOLEAN, outcome \in SendOutcomes :
          \E ports \in IF outcome = "serial_error" THEN PortLists ELSE {<<>>} :
             RunStart(healthy, outcome, ports)
    \/ Quit
    \/ Interrupt
    \/ \E n_ok \in 0..Len(TestCommands), fail_outcome \in SendOutcomes \ {"ok"} :
          \E ports \in IF fail_outcome = "serial_error" THEN PortLists ELSE {<<>>} :
             TestJaw(n_ok, fail_outcome, ports)
    \/ \E outcome \in {"not_recorded", "server_error", "no_audio", "bad_audio", "audio"} :
            ProcessQuestion(outcome)
    \/ \E outcome \in {"played", "not_played", "exception"} : PlayEnd(outcome)
    \/ \E timed_out \in BOOLEAN : JoinReturn(timed_out)
    \/ \E ok \in BOOLEAN : Cleanup(ok)
    \/ \E t \in 1..MaxPlaybacks, seg \in DOMAIN Segments : JawPoll(t, seg)
    \/ \E t \in 1..MaxPlaybacks, outcome \in SendOutcomes : JawSend(t, outcome)
    \/ \E t \in 1..MaxPlaybacks, ports \in PortLists : JawReconnect(t, ports)

SpecClient == InitClient /\ [][NextClient]_vars

\* join(timeout=1.0) returns within its timeout
SpecClientLive == SpecClient /\ WF_vars(\E timed_out \in BOOLEAN : JoinReturn(timed_out))

\* C15: whenever play_audio_with_jaw is over and the loop is back at its
\* prompt, the jaw_moving flag has been cleared, so that no jaw thread keeps
\* animating after the playback it was started for.
C15_FlagClearedAfterPlayback == fg.pc = "prompt" => ~jaw_moving

\* C16: stop_speaking clears jaw_moving, and its join returns whatever the jaw
\* thread is doing: while the foreground thread waits in the join the flag is
\* clear and the return by timeout is possible, the wait always ends, and it
\* ends at the next prompt (or in the shutdown after Ctrl-C) with the flag
\* still clear.
C16_StopSpeakingReturns ==
    /\ [](fg.pc = "join" => ~jaw_moving /\ ENABLED JoinReturn(TRUE))
    /\ (fg.pc = "join") ~> (fg.pc # "join")
    /\ [][(fg.pc = "join" /\ fg'.pc # "join")
             => fg'.pc \in {"prompt", "cleanup"} /\ ~jaw_moving']_vars
    /\ [][(fg'.stopped # "none" /\ fg' # fg) => ~jaw_moving']_vars

\* stop_speaking has returned by the timeout of its join: the loop is at its
\* prompt while the jaw thread is still inside a send or a reconnect
C16_Witness ==
    /\ fg.pc = "prompt" /\ fg.stopped = "timeout" /\ ~jaw_moving
    /\ Alive(jaw_thread) /\ threads[jaw_thread].pc \in {"send", "reconnect"}

\* C17: every byte string the client writes to the serial port is O or C
\* followed by a newline.
C17_OnlyCommandLines == \A w \in link : w \in {<<"O", "\n">>, <<"C", "\n">>}

\* C18, as stated: every jaw command that fails on the link (serial error,
\* write timeout or any other send error) is written once, reports failure
\* and is followed by exactly one reconnect attempt.
C18_EveryFailureReconnectsOnce ==
    last_sent.outcome \in {"timeout", "serial_error", "error"}
        => last_sent.writes = 1 /\ last_sent.result = "False" /\ last_sent.reconnects = 1

\* C18, amended: a jaw command that fails is written once and reports failure;
\* exactly one reconnect attempt follows when the failure is a serial error
\* other than a write timeout, and none after a write timeout or another
\* error. A jaw thread reconnects only for such a serial error, re-sends after
\* it only the closing command of the end of speech (CloseAttempts sends at
\* most), and none of its steps changes where the foreground thread is in the
\* playback.
C18_SerialErrorReconnectsOnce ==
    /\ [](last_sent.outcome \in {"timeout", "serial_error", "error"}
            => /\ last_sent.writes = 1 /\ last_sent.result = "False"
               /\ last_sent.reconnects = (IF last_sent.outcome = "serial_error" THEN 1 ELSE 0))
    /\ [](\A t \in 1..MaxPlaybacks : threads[t].attempt <= CloseAttempts)
    /\ [][\A t \in 1..MaxPlaybacks :
            /\ (threads'[t].pc = "reconnect" /\ threads[t].pc # "reconnect")
                  => last_sent'.outcome = "serial_error" /\ last_sent'.reconnects = 1
            /\ (threads[t].pc = "reconnect" /\ threads'[t].pc = "send")
                  => threads[t].attempt \in 1..(CloseAttempts - 1)]_vars
    /\ [][(fg.pc = "playing" /\ threads' # threads) => fg' = fg]_vars

\* during a playback a jaw command has failed with a serial error and the jaw
\* thread is in its one reconnect
C18_Witness ==
    /\ fg.pc = "playing"
    /\ last_sent.outcome = "serial_error" /\ last_sent.reconnects = 1
    /\ \E t \in 1..MaxPlaybacks : threads[t].pc = "reconnect"

(***************************************************************************)
(* load_or_build_index over successive starts of server.py                 *)
(***************************************************************************)
\* load_or_build_index that builds without writing the cache file
load_or_build_index_mut(file, n_texts, index_path, env) ==
    IF ~env.embedder_ok \/ ~env.encode_ok
    THEN [raised |-> TRUE, ntotal |-> -1, encoded |-> 0, built |-> FALSE, loaded |-> FALSE,
          file |-> file]
    ELSE [raised |-> FALSE, ntotal |-> n_texts, encoded |-> n_texts, built |-> TRUE,
          loaded |-> FALSE, file |-> file]

\* load_or_build_index(df, text_col, index_path=...), build_faiss_index
\* included: file is the vector count of the cache file (-1: no file),
\* index_path whether a path is passed, env what the libraries do
load_or_build_index(file, n_texts, index_path, env) ==
    LET failure == [raised |-> TRUE, ntotal |-> -1, encoded |-> 0, built |-> FALSE,
                    loaded |-> FALSE, file |-> file]
    IN  IF ~env.embedder_ok THEN failure
        ELSE IF index_path /\ file >= 0
        THEN IF env.read_ok
             THEN [raised |-> FALSE, ntotal |-> file, encoded |-> 0, built |-> FALSE,
                   loaded |-> TRUE, file |-> file]
             ELSE failure
        ELSE IF ~env.encode_ok THEN failure
        ELSE IF index_path /\ ~env.write_ok
        THEN [failure EXCEPT !.encoded = n_texts]
        ELSE [raised |-> FALSE, ntotal |-> n_texts, encoded |-> n_texts, built |-> TRUE,
              loaded |-> FALSE, file |-> IF index_path THEN n_texts ELSE file]

InitStartup ==
    /\ su \in [n_texts : 0..CorpusSize, index_path : BOOLEAN, startups : {0}, builds : {0},
               before : {-1}, last : {NoLoad}]
    /\ index_file \in IndexFiles
    /\ variant = "server" /\ HAS_OLLAMA = FALSE /\ HAS_PIPER = FALSE /\ Imported
    /\ CleanIdle /\ PromptIdle /\ RetrieveIdle /\ RequestIdle /\ ClientIdle

\* one start of the server: initialize_models calls load_or_build_index
Startup(env) ==
    /\ su.startups < MaxStartups
    /\ LET r == load_or_build_index(index_file, su.n_texts, su.index_path, env)
       IN  /\ index_file' = r.file
           /\ su' = [su EXCEPT !.startups = @ + 1,
                               !.builds = IF r.built THEN @ + 1 ELSE @,
                               !.before = index_file,
                               !.last = [raised |-> r.raised, ntotal |-> r.ntotal,
                                         encoded |-> r.encoded, built |-> r.built,
                                         loaded |-> r.loaded]]
    /\ UNCHANGED <<variant, phase, HAS_OLLAMA, HAS_PIPER, modelHandles, piper_voice,
                   cleanVars, promptVars, retrieveVars, clientVars, requestVars>>

NextStartup ==
    \E env \in [embedder_ok : BOOLEAN, read_ok : BOOLEAN, encode_ok : BOOLEAN,
                write_ok : BOOLEAN] : Startup(env)

SpecStartup == InitStartup /\ [][NextStartup]_vars

\* C21: a call of load_or_build_index that is given a cache path and returns
\* has built the index (encoding every passage) and written the cache file
\* exactly when the file was absent; when the file was there it has loaded the
\* index from it, and in that case no passage is encoded and the file is left
\* as it was, whether the call returns or not. Over the successive starts the
\* index is built at most once.
C21_BuiltOnlyWhenCacheAbsent ==
    (su.index_path /\ su.startups > 0) =>
        /\ ~su.last.raised =>
              /\ su.last.built = (su.before < 0)
              /\ su.last.loaded = (su.before >= 0)
              /\ su.last.built => /\ su.last.encoded = su.n_texts
                                  /\ su.last.ntotal = su.n_texts
                                  /\ index_file = su.n_texts
        /\ su.before >= 0 => /\ su.last.encoded = 0 /\ ~su.last.built
                             /\ index_file = su.before
                             /\ ~su.last.raised => su.last.ntotal = su.before
        /\ su.builds <= 1

\* a start has built and written the index and a later start has loaded it
C21_Witness ==
    /\ su.index_path /\ su.builds = 1 /\ su.startups >= 2 /\ su.n_texts > 0
    /\ su.last.loaded /\ su.last.encoded = 0 /\ index_file = su.n_texts

Answers ==
    {<<" ","D","o"," ","y","o","u","r"," ","d","u","t","y",".">>, <<" ","A","c","t"," ","(","i","d","=","1","2",")"," ","n","o","w",".","\n">>, <<" ","T","h","e"," ","a","n","s","w","e","r",":"," ","a","c","t",".">>,
     <<"\n","C","o","n","t","e","x","t",":"," ","s","e","e"," ","a","b","o","v","e","."," ","U",
     "s","e","r"," ","q","u","e","r","y",":"," ","n","o","n","e","."," ","A","n","s","w",
     "e","r",":"," ","a","c","t",".">>,
     <<" ","U","S","E","R"," ","Q","U","E","R","Y",":"," ","w","h","y"," ","C","O","N","T","E",
     "X","T",":"," ","h","e","r","e">>, <<"A","n","s","w","e","r",":">>}

EchoRetrieved == UNION {[1..m -> RetrievedEntries] : m \in 0..1}

InitEcho ==
    /\ mp_args \in [query : Queries, retrieved : EchoRetrieved,
                    max_context_chars : {0, DEFAULT_MAX_CONTEXT_CHARS}]
    /\ mp_out = [done |-> FALSE, context_parts |-> <<>>, context |-> <<>>, prompt |-> <<>>]
    /\ CleanIdle /\ RetrieveIdle /\ ProcessIdle /\ RequestIdle /\ ClientIdle
    /\ StartupIdle

\* response_text_raw = generate_with_transformers(prompt), the model having
\* written answer after the prompt
EchoGenerate(answer) ==
    /\ mp_out.done
    /\ response_text_raw = <<>>
    /\ response_text_raw' = mp_out.prompt \o answer
    /\ UNCHANGED <<pc, nreq, audio_bytes, transcribed_text, retrieved, response_text,
                   tts_text, calls, failed, resp, cleanVars, promptVars, retrieveVars,
                   clientVars, su, processVars>>

\* response_text = clean_response_text(response_text_raw)
EchoClean ==
    /\ response_text_raw # <<>>
    /\ applied = 0
    /\ response_text' = clean_response_text(response_text_raw)
    /\ applied' = 1
    /\ UNCHANGED <<text, pc, nreq, audio_bytes, transcribed_text, retrieved,
                   response_text_raw, tts_text, calls, failed, resp, promptVars,
                   retrieveVars, clientVars, su, processVars>>

NextEcho ==
    \/ MakePromptStep
    \/ \E answer \in Answers : EchoGenerate(answer)
    \/ EchoClean

SpecEcho == InitEcho /\ [][NextEcho]_vars

\* what the generator wrote after the prompt it echoed
EchoedAnswer ==
    SubSeq(response_text_raw, Len(mp_out.prompt) + 1, Len(response_text_raw))

\* C24: when the generator output is the prompt followed by an answer, the
\* cleaned response is exactly the cleaned answer: the echoed prompt is removed
\* whole and nothing of the answer is removed
C24_EchoedPromptRemovedAnswerKept ==
    applied = 1 => response_text = clean_response_text(EchoedAnswer)

(***************************************************************************)
(* The request handlers of every server variant                            *)
(***************************************************************************)
InitHandlers == InitServer \/ InitSemantic

NextHandlers == NextServer \/ NextSemantic

SpecHandlers == InitHandlers /\ [][NextHandlers]_vars

\* the positions of a handler in the order process_audio goes through them
Stages ==
    <<"idle", "transcribe", "transcribe_file", "retrieve", "answer", "generate",
      "synthesize", "done">>

StageOf(p) == CHOOSE k \in DOMAIN Stages : Stages[k] = p

\* C26: process_audio is total in every variant.  A turn that is under way
\* has sent no response; each of its steps, whatever the collaborators did,
\* takes the handler forward, to a later stage or to its end with a response;
\* the turn ends with one response, whose status is 200, 400, 500 or 503 and
\* which is not changed afterwards; and after any response the serving process
\* takes the next request.
C26_ProcessAudioTotal ==
    /\ [](pc \notin {"idle", "done"} => resp.status = 0)
    /\ [][(pc \notin {"idle", "done"} /\ pc' # pc)
            => /\ StageOf(pc') > StageOf(pc)
               /\ nreq' = nreq
               /\ pc' = "done" => resp'.status # 0]_vars
    /\ []((nreq > 0 /\ pc = "done") => resp.status \in {200, 400, 500, 503})
    /\ [][(pc = "done" /\ nreq' = nreq) => (pc' = "done" /\ resp' = resp)]_vars
    /\ []((phase = "serving" /\ pc = "done" /\ nreq < MaxRequests)
            => ENABLED (\E n \in 1..MaxAudioBytes : Receive(n) \/ ReceiveSemantic(n)))

\* a first turn in which a collaborator raised an exception that only the
\* outer except clause answers: the response has status 500 and a further
\* request can be taken
C26_Witness ==
    /\ nreq = 1 /\ pc = "done"
    /\ resp.status = 500 /\ resp.error = "unhandled"
    /\ failed # {}
    /\ ENABLED (\E n \in 1..MaxAudioBytes : Receive(n) \/ ReceiveSemantic(n))

\* C27: at most one jaw-animation thread is running at any time
C27_AtMostOneJawThread ==
    Cardinality({t \in 1..MaxPlaybacks : Alive(t)}) <= 1

(***************************************************************************)
(* The humanoid client started against a server of any variant             *)
(***************************************************************************)
\* the JSON body of GET /health in the script of variant v, as the function
\* from its keys to their values
health_body(v) ==
    IF v = "server"
    THEN [k \in {"status", "models_loaded"} |->
             IF k = "status" THEN "healthy"
             ELSE health_response(whisper_model).models_loaded]
    ELSE IF v = "semantic"
    THEN [k \in {"status", "models_loaded", "whisper", "spiritual_responses", "tts",
                 "approach"} |->
             CASE k = "status" -> "healthy"
               [] k = "models_loaded" -> whisper_model # "None"
               [] k = "whisper" -> whisper_model # "None"
               [] k = "spiritual_responses" -> "len(SPIRITUAL_RESPONSES)"
               [] k = "tts" -> piper_voice # "None"
               [] k = "approach" -> "semantic_understanding"]
    ELSE [k \in {"status", "whisper", "gita_verses", "faiss_vectors", "sentence_model",
                 "tts", "approach"} |->
             CASE k = "status" -> "healthy"
               [] k = "whisper" -> whisper_model # "None"
               [] k = "gita_verses" -> Len(texts)
               [] k = "faiss_vectors" -> IF faiss_index = NoIndex THEN 0
                                         ELSE faiss_index.ntotal
               [] k = "sentence_model" -> embedder # "None"
               [] k = "tts" -> piper_voice # "None"
               [] k = "approach" -> "faiss_semantic_search"]

\* check_server_health: health.get("models_loaded", False) of a body received
\* with status code 200, False when the request raised
check_server_health(reachable, health) ==
    IF ~reachable THEN FALSE
    ELSE IF "models_loaded" \in DOMAIN health THEN health["models_loaded"]
    ELSE FALSE

\* run() of the client with the server of this process behind SERVER_URL
RunPaired(outcome, ports) ==
    /\ fg.pc = "run"
    /\ RunStart(check_server_health(phase = "serving", health_body(variant)), outcome, ports)

InitPairing == InitServer \/ InitSemantic

NextPairing ==
    \/ \E env \in InitEnvs : InitializeModels(env)
    \/ \E env \in LoadEnvs : LoadModels(env)
    \/ ServeUninitialized
    \/ \E has_serial \in BOOLEAN, ports \in PortLists : Construct(has_serial, ports)
    \/ \E outcome \in SendOutcomes :
          \E ports \in IF outcome = "serial_error" THEN PortLists ELSE {<<>>} :
             RunPaired(outcome, ports)

SpecPairing == InitPairing /\ [][NextPairing]_vars

\* every model the script of the variant loads at its start is loaded
ModelsLoaded ==
    /\ phase = "serving"
    /\ whisper_model = "loaded"
    /\ variant \in {"server", "faiss"} =>
          /\ df = "loaded" /\ embedder = "loaded" /\ faiss_index # NoIndex
    /\ (variant # "server" /\ HAS_PIPER) => piper_voice = "loaded"

\* C28: when the server, of whichever variant, is up with its models loaded,
\* the client's run() passes its health check and reaches its first prompt
C28_HealthyServerAdmitsClient ==
    [][(fg.pc = "run" /\ fg'.pc # "run" /\ ModelsLoaded) => fg'.pc = "prompt"]_vars

\* C29: find_relevant_verses returns a verse only for a position that the
\* index search reported inside the corpus: every entry of the results of a
\* search that went through stands, by its rank, for a hit whose position is
\* at least 0 and less than the number of verses
C29_VersesOnlyForPositionsInCorpus ==
    [][\A env \in VerseEnvs, follow_up \in DOMAIN FAISS_FOLLOW_UP :
          (/\ AnswerFaiss(env, follow_up)
           /\ ~EndConversation(transcribed_text)
           /\ env.encode_ok /\ env.search_ok
           /\ faiss_index # NoIndex /\ embedder # "None" /\ df # "None")
          => /\ failed' = failed
             /\ \A k \in DOMAIN retrieved' :
                    /\ retrieved'[k].rank \in DOMAIN env.hits
                    /\ env.hits[retrieved'[k].rank].idx \in 0..(Len(texts) - 1)]_vars

\* C30: run() returns only out of cleanup: the step that ends run() is the
\* one that clears the jaw flag, writes the close byte to an open port and
\* closes it, whether the user quit, interrupted, or the health check failed
C30_CleanupOnEveryExit ==
    [][(fg.pc # "exited" /\ fg'.pc = "exited")
          => /\ fg.pc = "cleanup"
             /\ ~jaw_moving'
             /\ arduino = "open" => CloseByte \in link']_vars

====
